---- MODULE Spec2Model ----
(***************************************************************************)
(* Membership-verification coordination subsystem of the QQ <-> VRChat     *)
(* binding bot: the Binding Store (SQLite and MySQL backends), and the     *)
(* handlers that read and write it.                                        *)
(*                                                                         *)
(* Tables are sets of rows, so that the key constraints of the schema are  *)
(* properties of the operations and not of the representation.             *)
(* The cached display name of a row is left out: every caller derives it   *)
(* from the game account id it binds.                                      *)
(***************************************************************************)
EXTENDS Integers, FiniteSets, Sequences, TLC

VARIABLES
    backend,               \* which BaseDatabase implementation bot.db is
    global_bindings,       \* table global_bindings
    group_bindings,        \* tables group_<id>_bindings, as rows carrying group_id
    global_verifications,  \* table global_verifications
    verifications,         \* table verifications
    now,                   \* the clock, in ticks
    reply,                 \* the last message the verification handlers sent
    ret,                   \* the last store operation: its result and row count
    nops,                  \* number of operations performed so far
    revision,              \* which revision of the handlers is deployed
    task,                  \* the handler tasks in flight: position, arguments, locals
    handled_flags,         \* GroupHandler._handled_flags
    pending_bindings,      \* GroupHandler._pending_bindings
    outbox                 \* actions sent to the chat gateway, in order

storeVars == <<backend, global_bindings, group_bindings, global_verifications, verifications>>

handlerVars == <<revision, task, handled_flags, pending_bindings, outbox>>

vars == <<storeVars, now, reply, ret, nops, handlerVars>>

----------------------------------------------------------------------------
(* Bounds and value sets *)

\* store operations in one run
MaxOps == 4

\* chat account ids, game account ids (usr_1, usr_2) and chat group ids
QQs == {1, 2}
VrcIds == {"usr_1", "usr_2"}
Groups == {10, 20}

\* Python None / SQL NULL
None == 0

BindTypes == {"manual", "verified"}
Backends == {"sqlite", "mysql"}

\* the handlers under src/src (current) and under src/handlers (legacy)
Revisions == {"current", "legacy"}

----------------------------------------------------------------------------
(* Schema *)

GlobalRow(q, v, t, o) ==
    [qq_id |-> q, vrc_user_id |-> v, bind_type |-> t, origin_group_id |-> o]

GroupRow(g, q, v) == [group_id |-> g, qq_id |-> q, vrc_user_id |-> v]

GlobalVerificationRow(q, v, by) == [qq_id |-> q, vrc_user_id |-> v, verified_by |-> by]

----------------------------------------------------------------------------
(* Queries *)

\* SELECT ... FROM global_bindings WHERE qq_id = ?
get_binding(gb, q) == {r \in gb : r.qq_id = q}

\* SELECT qq_id FROM global_bindings WHERE vrc_user_id = ?
get_qq_by_vrc_id(gb, v) == {r.qq_id : r \in {x \in gb : x.vrc_user_id = v}}

\* SELECT ... FROM group_<g>_bindings WHERE qq_id = ?
get_group_member_binding(grp, g, q) == {r \in grp : r.group_id = g /\ r.qq_id = q}

\* SELECT ... FROM global_verifications WHERE qq_id = ?
get_global_verification(gv, q) == {r \in gv : r.qq_id = q}

----------------------------------------------------------------------------
(* bind_user *)

\* INSERT OR REPLACE INTO group_<g>_bindings / INSERT ... ON DUPLICATE KEY UPDATE:
\* skipped when group_id is falsy
UpsertGroupRow(grp, q, v, g) ==
    IF g = None THEN grp
    ELSE {r \in grp : ~(r.group_id = g /\ r.qq_id = q)} \cup {GroupRow(g, q, v)}

\* SQLite step 1: keep a non-null origin_group_id of the account's old row
SqliteFinalOrigin(gb, q, g) ==
    IF \E r \in gb : r.qq_id = q /\ r.origin_group_id # None
    THEN (CHOOSE r \in gb : r.qq_id = q /\ r.origin_group_id # None).origin_group_id
    ELSE g

\* a global table without the UNIQUE constraint on vrc_user_id
SqliteReplaceGlobal_NoUnique(gb, q, v, t, g) ==
    {r \in gb : r.qq_id # q} \cup {GlobalRow(q, v, t, SqliteFinalOrigin(gb, q, g))}

\* SQLite step 2: INSERT OR REPLACE deletes every row that collides on the
\* primary key qq_id or on the UNIQUE column vrc_user_id, then inserts
SqliteReplaceGlobal(gb, q, v, t, g) ==
    {r \in gb : r.qq_id # q /\ r.vrc_user_id # v}
        \cup {GlobalRow(q, v, t, SqliteFinalOrigin(gb, q, g))}

\* MySQL: the UPDATE or INSERT raises IntegrityError on UNIQUE KEY idx_vrc_id
MysqlDuplicate(gb, q, v) == \E r \in gb : r.vrc_user_id = v /\ r.qq_id # q

\* MySQL: UPDATE ... SET origin_group_id = %s when the row exists, else INSERT
MysqlWriteGlobal(gb, q, v, t, g) ==
    {r \in gb : r.qq_id # q} \cup {GlobalRow(q, v, t, g)}

\* does bind_user return True
BindOk(be, gb, q, v) == be = "sqlite" \/ ~MysqlDuplicate(gb, q, v)

BindGlobal(be, gb, q, v, t, g) ==
    IF be = "sqlite" THEN SqliteReplaceGlobal(gb, q, v, t, g)
    ELSE IF MysqlDuplicate(gb, q, v) THEN gb
    ELSE MysqlWriteGlobal(gb, q, v, t, g)

BindGroup(be, gb, grp, q, v, g) ==
    IF BindOk(be, gb, q, v) THEN UpsertGroupRow(grp, q, v, g) ELSE grp

----------------------------------------------------------------------------
(* unbind_user_from_group, unbind_user_globally *)

\* DELETE FROM group_<g>_bindings WHERE qq_id = ?
DeleteGroupRow(grp, g, q) == {r \in grp : ~(r.group_id = g /\ r.qq_id = q)}

\* an unbind from the group that drops the account's global row with it
ClearOrigin_DropRow(gb, g, q) == {r \in gb : ~(r.qq_id = q /\ r.origin_group_id = g)}

\* UPDATE global_bindings SET origin_group_id = NULL WHERE qq_id = ? AND origin_group_id = ?
ClearOrigin(gb, g, q) ==
    {IF r.qq_id = q /\ r.origin_group_id = g
        THEN GlobalRow(r.qq_id, r.vrc_user_id, r.bind_type, None)
        ELSE r : r \in gb}

\* a global unbind that forgets the group tables
SweepGroupRows_Skip(grp, q) == grp

\* DELETE on every group_%_bindings table
SweepGroupRows(grp, q) == {r \in grp : r.qq_id # q}

\* DELETE FROM global_bindings WHERE qq_id = ?
DeleteGlobalRow(gb, q) == {r \in gb : r.qq_id # q}

----------------------------------------------------------------------------
(* Store operations as steps *)

\* the tables after _create_table on a fresh database
EmptyStore ==
    /\ backend \in Backends
    /\ global_bindings = {}
    /\ group_bindings = {}
    /\ global_verifications = {}
    /\ verifications = {}

\* GroupHandler.__init__, and no event being handled
IdleHandlers ==
    /\ revision = "current"
    /\ task = <<>>
    /\ handled_flags = {}
    /\ pending_bindings = {}
    /\ outbox = <<>>

\* no chat command has been answered yet
NoReply ==
    [cmd |-> "none", qq_id |-> None, kind |-> "none", code |-> "", generated |-> FALSE,
     stale |-> "", detail |-> ""]

NoRet == [op |-> "none", qq_id |-> None, ok |-> TRUE, deleted |-> 0]

Init ==
    /\ EmptyStore
    /\ IdleHandlers
    /\ now = 0
    /\ reply = NoReply
    /\ ret = NoRet
    /\ nops = 0

bind_user(q, v, t, g) ==
    /\ nops < MaxOps
    /\ global_bindings' = BindGlobal(backend, global_bindings, q, v, t, g)
    /\ group_bindings' = BindGroup(backend, global_bindings, group_bindings, q, v, g)
    /\ ret' = [op |-> "bind_user", qq_id |-> q,
               ok |-> BindOk(backend, global_bindings, q, v),
               deleted |-> Cardinality({r \in global_bindings \ global_bindings' : r.qq_id # q})]
    /\ nops' = nops + 1
    /\ UNCHANGED <<backend, global_verifications, verifications, now, reply, handlerVars>>

unbind_user_from_group(g, q) ==
    /\ nops < MaxOps
    /\ group_bindings' = DeleteGroupRow(group_bindings, g, q)
    /\ global_bindings' = ClearOrigin(global_bindings, g, q)
    /\ ret' = [op |-> "unbind_user_from_group", qq_id |-> q,
               ok |-> get_group_member_binding(group_bindings, g, q) # {},
               deleted |-> Cardinality(get_group_member_binding(group_bindings, g, q))]
    /\ nops' = nops + 1
    /\ UNCHANGED <<backend, global_verifications, verifications, now, reply, handlerVars>>

unbind_user_globally(q) ==
    /\ nops < MaxOps
    /\ group_bindings' = SweepGroupRows(group_bindings, q)
    /\ global_bindings' = DeleteGlobalRow(global_bindings, q)
    /\ ret' = [op |-> "unbind_user_globally", qq_id |-> q, ok |-> TRUE,
               deleted |-> Cardinality(group_bindings \ group_bindings')
                            + Cardinality(global_bindings \ global_bindings')]
    /\ nops' = nops + 1
    /\ UNCHANGED <<backend, global_verifications, verifications, now, reply, handlerVars>>

add_global_verification(q, v, by) ==
    /\ nops < MaxOps
    /\ global_verifications' =
          {r \in global_verifications : r.qq_id # q} \cup {GlobalVerificationRow(q, v, by)}
    /\ ret' = [op |-> "add_global_verification", qq_id |-> q, ok |-> TRUE, deleted |-> 0]
    /\ nops' = nops + 1
    /\ UNCHANGED <<backend, global_bindings, group_bindings, verifications, now, reply, handlerVars>>

\* GroupHandler._process_group_decrease: the member-left notice
_process_group_decrease(g, u) == unbind_user_from_group(g, u)

Bind == \E q \in QQs, v \in VrcIds, t \in BindTypes, g \in Groups \cup {None} :
            bind_user(q, v, t, g)

UnbindFromGroup == \E g \in Groups, q \in QQs : unbind_user_from_group(g, q)

UnbindGlobally == \E q \in QQs : unbind_user_globally(q)

AddGlobalVerification == \E q \in QQs, v \in VrcIds : add_global_verification(q, v, "verified")

MemberLeft == \E g \in Groups, u \in QQs : _process_group_decrease(g, u)

Next == Bind \/ UnbindFromGroup \/ MemberLeft \/ UnbindGlobally \/ AddGlobalVerification

Spec == Init /\ [][Next]_vars

----------------------------------------------------------------------------
(* GroupHandler.manual_bind, one task per !bind command.  Every await of    *)
(* the coroutine is a step of its own, so commands handled as concurrent    *)
(* tasks interleave between their store calls.                              *)

\* the two commands of the race: task i binds chat account i
BindTasks == {1, 2}

\* the task's position and its reply when it returns
Goto(i, pc) == task' = [task EXCEPT ![i].pc = pc]

Return(i, text, named) ==
    task' = [task EXCEPT ![i].pc = "done", ![i].reply = text, ![i].named = named]

\* validate_vrc_user_for_binding: _find_vrc_user finds the user or not
mb_find(i) ==
    /\ task[i].pc = "find"
    /\ \/ Goto(i, "global_verification")
       \/ Return(i, "not_found", None)
    /\ UNCHANGED <<storeVars, now, reply, ret, nops, revision, handled_flags, pending_bindings, outbox>>

\* validate_vrc_user_for_binding: a global verification to another game id refuses
mb_global_verification(i) ==
    /\ task[i].pc = "global_verification"
    /\ IF \E r \in get_global_verification(global_verifications, task[i].qq) :
              r.vrc_user_id # task[i].vrc
       THEN Return(i, "globally_verified", None)
       ELSE Goto(i, "conflict")
    /\ UNCHANGED <<storeVars, now, reply, ret, nops, revision, handled_flags, pending_bindings, outbox>>

\* _check_bind_conflict: the chat account that holds the game id, if another
mb_conflict(i) ==
    /\ task[i].pc = "conflict"
    /\ LET others == get_qq_by_vrc_id(global_bindings, task[i].vrc) \ {task[i].qq}
       IN IF others # {}
          THEN Return(i, "conflict", CHOOSE q \in others : TRUE)
          ELSE Goto(i, "group_binding")
    /\ UNCHANGED <<storeVars, now, reply, ret, nops, revision, handled_flags, pending_bindings, outbox>>

\* manual_bind: the account is already bound in this group
mb_group_binding(i) ==
    /\ task[i].pc = "group_binding"
    /\ IF task[i].group # None
          /\ get_group_member_binding(group_bindings, task[i].group, task[i].qq) # {}
       THEN Return(i, "bound_in_group", None)
       ELSE Goto(i, "global_binding")
    /\ UNCHANGED <<storeVars, now, reply, ret, nops, revision, handled_flags, pending_bindings, outbox>>

\* manual_bind: the account's global binding comes from another group
mb_global_binding(i) ==
    /\ task[i].pc = "global_binding"
    /\ IF \E r \in get_binding(global_bindings, task[i].qq) :
              r.origin_group_id # None /\ r.origin_group_id # task[i].group
       THEN Return(i, "bound_globally", None)
       ELSE Goto(i, "bind")
    /\ UNCHANGED <<storeVars, now, reply, ret, nops, revision, handled_flags, pending_bindings, outbox>>

\* manual_bind: bind_user, and the reply made from its result
mb_bind(i) ==
    /\ task[i].pc = "bind"
    /\ global_bindings' =
          BindGlobal(backend, global_bindings, task[i].qq, task[i].vrc, "manual", task[i].group)
    /\ group_bindings' =
          BindGroup(backend, global_bindings, group_bindings,
                    task[i].qq, task[i].vrc, task[i].group)
    /\ IF BindOk(backend, global_bindings, task[i].qq, task[i].vrc)
       THEN Return(i, "success", None)
       ELSE Return(i, "database_error", None)
    /\ UNCHANGED <<backend, global_verifications, verifications,
                   now, reply, ret, nops, revision, handled_flags, pending_bindings, outbox>>

ManualBindTask(i, q, v, g) ==
    [pc |-> "find", qq |-> q, vrc |-> v, group |-> g, reply |-> "none", named |-> None]

InitRace ==
    /\ EmptyStore
    /\ \E v1, v2 \in VrcIds, g1, g2 \in Groups :
          task = <<ManualBindTask(1, 1, v1, g1), ManualBindTask(2, 2, v2, g2)>>
    /\ revision = "current"
    /\ handled_flags = {}
    /\ pending_bindings = {}
    /\ outbox = <<>>
    /\ now = 0
    /\ reply = NoReply
    /\ ret = NoRet
    /\ nops = 0

ManualBindFind == \E i \in BindTasks : mb_find(i)
ManualBindGlobalVerification == \E i \in BindTasks : mb_global_verification(i)
ManualBindConflict == \E i \in BindTasks : mb_conflict(i)
ManualBindGroupBinding == \E i \in BindTasks : mb_group_binding(i)
ManualBindGlobalBinding == \E i \in BindTasks : mb_global_binding(i)
ManualBindBind == \E i \in BindTasks : mb_bind(i)

NextRace ==
    \/ ManualBindFind
    \/ ManualBindGlobalVerification
    \/ ManualBindConflict
    \/ ManualBindGroupBinding
    \/ ManualBindGlobalBinding
    \/ ManualBindBind

SpecRace == InitRace /\ [][NextRace]_vars

----------------------------------------------------------------------------
(* GroupHandler._process_group_add, one task per delivery of a request      *)
(* event.  The handler only reads the store; what it does is call the chat  *)
(* client, recorded in outbox.  A step ends at an await.                    *)

\* the deliveries in flight, and the flags they may carry
JoinTasks == {1, 2}
Flags == {"flag_a", "flag_b"}
SubTypes == {"add", "invite"}

\* verification_mode of the group; unset is any value the handler does not name
Modes == {"strict", "mixed", "disabled", "unset"}

\* what a read of a true/false group setting gives the handler: the stored
\* text, or None when the read fails
SettingReads == {"true", "false", "none"}

\* what _check_security_policies finds when it looks: the check_occupy option,
\* the check_group_membership setting as read, whether a game group id is set,
\* whether the game account is a member of it, the check_troll setting as read,
\* and whether the game account carries the risk tag
PolicyInputs ==
    [check_occupy : BOOLEAN, check_group : SettingReads, has_group_id : BOOLEAN,
     is_member : BOOLEAN, check_troll : SettingReads, troll : BOOLEAN]

\* the (passed, reason) pair returned, and the checks that were evaluated
PolicyResult(passed, reason, evaluated) ==
    [passed |-> passed, reason |-> reason, evaluated |-> evaluated]

\* _check_bind_conflict: the other chat accounts bound to game account v
_check_bind_conflict(gb, v, u) == get_qq_by_vrc_id(gb, v) \ {u}

\* the checks taken with the risk tag first
_check_security_policies_RiskFirst(rev, conflict, p) ==
    IF p.check_troll = "true" /\ p.troll
    THEN PolicyResult(FALSE, "reject_troll", <<"risk">>)
    ELSE IF p.check_occupy /\ conflict
    THEN PolicyResult(FALSE, "reject_already_bound", <<"risk", "conflict">>)
    ELSE PolicyResult(TRUE, "", <<"risk", "conflict">>)

\* _check_security_policies: conflict, membership of the game group, risk
\* tag.  The current revision reads the group settings and calls .lower() on
\* what it read, and rejects when the membership check is on with no game
\* group id; the legacy revision reads the configuration and skips the
\* membership check then.
_check_security_policies(rev, conflict, p) ==
    LET e1 == IF p.check_occupy THEN <<"conflict">> ELSE <<>>
        membership == p.check_group = "true" /\ p.has_group_id
        e2 == IF membership THEN Append(e1, "membership") ELSE e1
        e3 == IF p.check_troll = "true" THEN Append(e2, "risk") ELSE e2
    IN IF p.check_occupy /\ conflict
       THEN PolicyResult(FALSE, "reject_already_bound", e1)
       ELSE IF rev = "current" /\ p.check_group = "none"
       THEN PolicyResult(FALSE, "raised", e1)
       ELSE IF rev = "current" /\ p.check_group = "true" /\ ~p.has_group_id
       THEN PolicyResult(FALSE, "group_config_error", e1)
       ELSE IF membership /\ ~p.is_member
       THEN PolicyResult(FALSE, "reject_no_group", e2)
       ELSE IF rev = "current" /\ p.check_troll = "none"
       THEN PolicyResult(FALSE, "raised", e2)
       ELSE IF p.check_troll = "true" /\ p.troll
       THEN PolicyResult(FALSE, "reject_troll", e3)
       ELSE PolicyResult(TRUE, "", e3)

\* qq_client.approve_request, reject_request and send_group_msg
Send(out, kind, flag) == Append(out, [action |-> kind, flag |-> flag])

\* the account's entry is dropped and none is written
CachePending_Forget(pb, user, v) == {p \in pb : p.qq_id # user}

\* self._pending_bindings[user_id] = {...}
CachePending(pb, user, v) ==
    {p \in pb : p.qq_id # user} \cup {[qq_id |-> user, id |-> v, time |-> now]}

\* the coroutine returns, or an exception ends it
Finish(i, result) == task' = [task EXCEPT ![i].pc = "done", ![i].result = result]

\* flag in self._handled_flags
FlagHandled_Never(hf, flag) == FALSE

FlagHandled(hf, flag) == flag \in hf

\* the flag check and the add that follows it, with no await between them
Dedupe(i, pc) ==
    IF FlagHandled(handled_flags, task[i].flag)
    THEN Finish(i, "duplicate") /\ UNCHANGED handled_flags
    ELSE Goto(i, pc) /\ handled_flags' = handled_flags \cup {task[i].flag}

\* approve, reject or warn, and return
Decide(i, kind) ==
    /\ outbox' = Send(outbox, kind, task[i].flag)
    /\ Finish(i, kind)

\* pre-check: the auto_approve_group_request setting; the legacy handler
\* reads it from the configuration and goes on to the flag check at once
pga_auto_approve(i) ==
    /\ task[i].pc = "auto_approve"
    /\ IF revision = "legacy"
       THEN \E on \in BOOLEAN :
               IF on
               THEN Dedupe(i, "reconnect")
               ELSE Finish(i, "ignored") /\ UNCHANGED handled_flags
       ELSE /\ \E s \in SettingReads :
                  CASE s = "none" -> Finish(i, "raised")
                    [] s = "false" -> Finish(i, "ignored")
                    [] s = "true" -> Goto(i, "dedupe")
            /\ UNCHANGED handled_flags
    /\ UNCHANGED <<storeVars, now, reply, ret, nops, revision, pending_bindings, outbox>>

pga_dedupe(i) ==
    /\ task[i].pc = "dedupe"
    /\ Dedupe(i, "mode")
    /\ UNCHANGED <<storeVars, now, reply, ret, nops, revision, pending_bindings, outbox>>

\* verification_mode and auto_reject_on_join of the group
pga_mode(i) ==
    /\ task[i].pc = "mode"
    /\ \E m \in Modes, s \in SettingReads :
          IF s = "none"
          THEN Finish(i, "raised")
          ELSE task' = [task EXCEPT ![i].pc = "global_verification",
                                    ![i].mode = m,
                                    ![i].auto_reject = (s = "true")]
    /\ UNCHANGED <<storeVars, now, reply, ret, nops, revision, handled_flags,
                   pending_bindings, outbox>>

\* a globally verified account is approved at once
pga_global_verification(i) ==
    /\ task[i].pc = "global_verification"
    /\ IF get_global_verification(global_verifications, task[i].user_id) # {}
       THEN Decide(i, "approve")
       ELSE Goto(i, "reconnect") /\ UNCHANGED outbox
    /\ UNCHANGED <<storeVars, now, reply, ret, nops, revision, handled_flags, pending_bindings>>

\* the binding is not looked up: the handler goes on to the comment
pga_reconnect_Skip(i) ==
    /\ task[i].pc = "reconnect"
    /\ Goto(i, "parse")
    /\ UNCHANGED <<storeVars, now, reply, ret, nops, revision, handled_flags,
                   pending_bindings, outbox>>

\* _try_auto_reconnect: an account with a global binding is cached and approved
pga_reconnect(i) ==
    /\ task[i].pc = "reconnect"
    /\ LET binding == get_binding(global_bindings, task[i].user_id)
       IN IF binding # {}
          THEN /\ pending_bindings' =
                     CachePending(pending_bindings, task[i].user_id,
                                  (CHOOSE r \in binding : TRUE).vrc_user_id)
               /\ Decide(i, "approve")
          ELSE Goto(i, "parse") /\ UNCHANGED <<pending_bindings, outbox>>
    /\ UNCHANGED <<storeVars, now, reply, ret, nops, revision, handled_flags>>

\* every request whose comment names no game account is rejected
Unresolved_AlwaysReject(i) == Decide(i, "reject")

\* the comment names no game account
Unresolved(i) ==
    LET RejectAdd == IF task[i].sub_type = "add"
                     THEN Decide(i, "reject")
                     ELSE Finish(i, "none") /\ UNCHANGED outbox
    IN CASE revision = "legacy" -> RejectAdd
         [] revision = "current" /\ task[i].mode = "disabled" ->
               IF task[i].auto_reject THEN RejectAdd ELSE Decide(i, "approve")
         [] revision = "current" /\ task[i].mode # "disabled" ->
               IF task[i].auto_reject THEN RejectAdd ELSE Decide(i, "group_msg")

\* the comment names game account v
Resolved(i, v) ==
    CASE revision = "current" /\ task[i].mode = "disabled" -> Decide(i, "approve")
      [] revision = "current" /\ task[i].mode = "strict" ->
            task' = [task EXCEPT ![i].pc = "strict", ![i].vrc = v] /\ UNCHANGED outbox
      [] OTHER ->
            task' = [task EXCEPT ![i].pc = "policy", ![i].vrc = v] /\ UNCHANGED outbox

\* _parse_vrc_user_from_comment, and the branch on the verification mode
pga_parse(i) ==
    /\ task[i].pc = "parse"
    /\ \/ Unresolved(i)
       \/ \E v \in VrcIds : Resolved(i, v)
    /\ UNCHANGED <<storeVars, now, reply, ret, nops, revision, handled_flags, pending_bindings>>

\* the approve is issued first, the entry is written after the call returns
CacheAndApprove_ApproveFirst(i) ==
    /\ UNCHANGED pending_bindings
    /\ Decide(i, "approve")

\* cache the candidate and approve
CacheAndApprove(i) ==
    /\ pending_bindings' = CachePending(pending_bindings, task[i].user_id, task[i].vrc)
    /\ Decide(i, "approve")

\* strict mode: an account already bound in this group is let in
pga_strict(i) ==
    /\ task[i].pc = "strict"
    /\ IF get_group_member_binding(group_bindings, task[i].group_id, task[i].user_id) # {}
       THEN CacheAndApprove(i)
       ELSE Goto(i, "policy") /\ UNCHANGED <<pending_bindings, outbox>>
    /\ UNCHANGED <<storeVars, now, reply, ret, nops, revision, handled_flags>>

\* the policy checks in the world p, and the decision made from the result
pga_checked(i, p) ==
    LET r == _check_security_policies(
                 revision,
                 _check_bind_conflict(global_bindings, task[i].vrc, task[i].user_id) # {},
                 p)
    IN /\ task[i].pc = "policy"
       /\ revision = "legacy" => p.check_group # "none" /\ p.check_troll # "none"
       /\ CASE r.reason = "raised" ->
                  Finish(i, "raised") /\ UNCHANGED <<pending_bindings, outbox>>
            [] r.reason # "raised" /\ ~r.passed ->
                  Decide(i, "reject") /\ UNCHANGED pending_bindings
            [] OTHER -> CacheAndApprove(i)
       /\ UNCHANGED <<storeVars, now, reply, ret, nops, revision, handled_flags>>

\* the worlds the deliveries are checked in: the risk check is off, and the
\* game account is outside the configured game group
JoinPolicyInputs ==
    {p \in PolicyInputs :
        p.has_group_id /\ ~p.is_member /\ p.check_troll = "false" /\ ~p.troll}

\* _check_security_policies and the decision that follows
pga_policy(i) == \E p \in JoinPolicyInputs : pga_checked(i, p)

JoinTask(f, u, g, s) ==
    [pc |-> "auto_approve", flag |-> f, user_id |-> u, group_id |-> g, sub_type |-> s,
     mode |-> "unset", auto_reject |-> FALSE, vrc |-> "", result |-> "none"]

\* stores the handler may find: empty; account 1 globally verified; account 1
\* bound from group 10; account 1 bound from group 10 after a verify, which
\* left its global verification; account 1 bound in group 10 with its global
\* row displaced by account 2's bind to the same game account
JoinStores ==
    { [gb |-> {}, grp |-> {}, gv |-> {}],
      [gb |-> {}, grp |-> {}, gv |-> {GlobalVerificationRow(1, "usr_1", "system")}],
      [gb |-> {GlobalRow(1, "usr_1", "verified", 10)},
       grp |-> {GroupRow(10, 1, "usr_1")}, gv |-> {}],
      [gb |-> {GlobalRow(1, "usr_1", "verified", 10)},
       grp |-> {GroupRow(10, 1, "usr_1")},
       gv |-> {GlobalVerificationRow(1, "usr_1", "verified")}],
      [gb |-> {GlobalRow(2, "usr_1", "manual", 10)},
       grp |-> {GroupRow(10, 1, "usr_1"), GroupRow(10, 2, "usr_1")}, gv |-> {}] }

\* two request events for group 10 are delivered; events with the same flag
\* are the same request
InitJoin ==
    /\ backend = "sqlite"
    /\ \E st \in JoinStores :
          /\ global_bindings = st.gb
          /\ group_bindings = st.grp
          /\ global_verifications = st.gv
    /\ verifications = {}
    /\ revision \in Revisions
    /\ \E f \in Flags, u1, u2 \in QQs, s1, s2 \in SubTypes :
          /\ f = "flag_a" => (u1 = u2 /\ s1 = s2)
          /\ task = <<JoinTask("flag_a", u1, 10, s1), JoinTask(f, u2, 10, s2)>>
    /\ handled_flags = {}
    /\ pending_bindings = {}
    /\ outbox = <<>>
    /\ now = 0
    /\ reply = NoReply
    /\ ret = NoRet
    /\ nops = 0

JoinAutoApprove == \E i \in JoinTasks : pga_auto_approve(i)
JoinDedupe == \E i \in JoinTasks : pga_dedupe(i)
JoinMode == \E i \in JoinTasks : pga_mode(i)
JoinGlobalVerification == \E i \in JoinTasks : pga_global_verification(i)
JoinReconnect == \E i \in JoinTasks : pga_reconnect(i)
JoinParse == \E i \in JoinTasks : pga_parse(i)
JoinStrict == \E i \in JoinTasks : pga_strict(i)
JoinPolicy == \E i \in JoinTasks : pga_policy(i)

NextJoin ==
    \/ JoinAutoApprove
    \/ JoinDedupe
    \/ JoinMode
    \/ JoinGlobalVerification
    \/ JoinReconnect
    \/ JoinParse
    \/ JoinStrict
    \/ JoinPolicy

SpecJoin == InitJoin /\ [][NextJoin]_vars

----------------------------------------------------------------------------
(* Verification records: the verifications table, the expiry sweep, the     *)
(* challenge sent to a new member and the code and verify commands.  The    *)
(* clock advances in ticks; both backends stamp a record and measure its    *)
(* age in whole seconds.                                                    *)

\* commands and challenges in one run; the sweep is free to run at any time
MaxCmds == 2

\* ticks in a second
TicksPerSecond == 2

\* vrc_config.verification["code_expiry"], in seconds
code_expiry == 2

\* the clock stops after this many seconds
MaxSeconds == 4

\* generate_verification_code: six random digits
Codes == {"111111", "222222"}

\* the text written over the code of an expired record
ExpiredCode == "Ciallo"

\* CURRENT_TIMESTAMP, strftime('%s', 'now'), NOW(): the clock in whole seconds
Seconds(t) == t \div TicksPerSecond

VerificationRow(q, v, c, at, exp) ==
    [qq_id |-> q, vrc_user_id |-> v, code |-> c, created_at |-> at, is_expired |-> exp]

\* SELECT ... FROM verifications WHERE qq_id = ?
get_verification(vt, q) == {r \in vt : r.qq_id = q}

\* an elapsed time that falls back to zero
calculate_verification_elapsed_Zero(r, t) == 0

\* the elapsed column of get_verification, which calculate_verification_elapsed
\* returns: strftime('%s','now') - strftime('%s', created_at), or
\* TIMESTAMPDIFF(SECOND, created_at, NOW())
calculate_verification_elapsed(r, t) == Seconds(t) - r.created_at

\* an upsert that leaves created_at of an existing row as it was
add_verification_KeepCreated(vt, q, v, c, t) ==
    {r \in vt : r.qq_id # q}
        \cup {VerificationRow(q, v, c,
                              IF get_verification(vt, q) # {}
                              THEN (CHOOSE r \in get_verification(vt, q) : TRUE).created_at
                              ELSE Seconds(t),
                              FALSE)}

\* an insert into a table without the primary key
add_verification_Append(vt, q, v, c, t) ==
    vt \cup {VerificationRow(q, v, c, Seconds(t), FALSE)}

\* SQLite: INSERT OR REPLACE, created_at taking its default; MySQL: INSERT ...
\* ON DUPLICATE KEY UPDATE code, created_at = CURRENT_TIMESTAMP, is_expired = FALSE
add_verification(vt, q, v, c, t) ==
    {r \in vt : r.qq_id # q} \cup {VerificationRow(q, v, c, Seconds(t), FALSE)}

\* a delete that removes nothing
delete_verification_Keep(vt, q) == vt

\* DELETE FROM verifications WHERE qq_id = ?
delete_verification(vt, q) == {r \in vt : r.qq_id # q}

\* an update that sets the flag and leaves the code
Expire_FlagOnly(r) == [r EXCEPT !.is_expired = TRUE]

\* UPDATE verifications SET code = <mark>, is_expired = 1
Expire(r) == [r EXCEPT !.code = ExpiredCode, !.is_expired = TRUE]

mark_verification_expired(vt, q) ==
    {IF r.qq_id = q THEN Expire(r) ELSE r : r \in vt}

\* SQLite compares the created_at text with the cutoff number: no row is less.
\* MySQL: created_at < DATE_SUB(NOW(), INTERVAL ttl SECOND) AND is_expired = FALSE
expire_outdated_verifications(be, vt, t, ttl) ==
    IF be = "sqlite" THEN vt
    ELSE {IF r.created_at < Seconds(t) - ttl /\ ~r.is_expired THEN Expire(r) ELSE r :
             r \in vt}

\* the message a handler sends back
Reply(cmd, q, kind, c, gen, old) ==
    [cmd |-> cmd, qq_id |-> q, kind |-> kind, code |-> c, generated |-> gen, stale |-> old,
     detail |-> ""]

\* the further text is left out
Detail_None(r, d) == r

\* the same message with the further text it carries
Detail(r, d) == [r EXCEPT !.detail = d]

\* the code of the account's record, if it has one
StoredCode(vt, q) ==
    IF get_verification(vt, q) = {} THEN ""
    ELSE (CHOOSE r \in get_verification(vt, q) : TRUE).code

\* time passes
Tick ==
    /\ now < MaxSeconds * TicksPerSecond
    /\ now' = now + 1
    /\ UNCHANGED <<storeVars, reply, ret, nops, handlerVars>>

\* Scheduler.verification_expiry_task, one round
verification_expiry_task ==
    /\ verifications' =
          expire_outdated_verifications(backend, verifications, now, code_expiry)
    /\ UNCHANGED <<backend, global_bindings, group_bindings, global_verifications,
                   now, reply, ret, nops, handlerVars>>

\* GroupHandler._initiate_new_verification: a code is generated, stored and
\* sent to the group
_initiate_new_verification(g, q, v) ==
    /\ nops < MaxCmds
    /\ \E c \in Codes :
          /\ verifications' = add_verification(verifications, q, v, c, now)
          /\ reply' = Reply("initiate", q, "verification_request", c, TRUE,
                            StoredCode(verifications, q))
    /\ nops' = nops + 1
    /\ UNCHANGED <<backend, global_bindings, group_bindings, global_verifications,
                   now, ret, handlerVars>>

\* MessageHandler._cmd_code: the account's code, regenerated when the record
\* is flagged or older than code_expiry
_cmd_code(q) ==
    /\ nops < MaxCmds
    /\ LET vs == get_verification(verifications, q)
           v == CHOOSE r \in vs : TRUE
           old == StoredCode(verifications, q)
       IN CASE get_binding(global_bindings, q) # {} ->
                  /\ reply' = Reply("code", q, "already_bound", "", FALSE, old)
                  /\ UNCHANGED verifications
            [] get_binding(global_bindings, q) = {} /\ vs = {} ->
                  /\ reply' = Reply("code", q, "no_verification_request", "", FALSE, old)
                  /\ UNCHANGED verifications
            [] OTHER ->
                  IF v.is_expired
                  THEN \E c \in Codes :
                          /\ verifications' =
                                add_verification(verifications, q, v.vrc_user_id, c, now)
                          /\ reply' = Reply("code", q, "verification_code_generated",
                                            StoredCode(verifications', q), TRUE, old)
                  ELSE IF calculate_verification_elapsed(v, now) > code_expiry
                  THEN \E c \in Codes :
                          /\ verifications' =
                                add_verification(mark_verification_expired(verifications, q),
                                                 q, v.vrc_user_id, c, now)
                          /\ reply' = Reply("code", q, "verification_code_generated",
                                            StoredCode(verifications', q), TRUE, old)
                  ELSE /\ reply' = Reply("code", q, "verification_code_generated",
                                         v.code, FALSE, old)
                       /\ UNCHANGED verifications
    /\ nops' = nops + 1
    /\ UNCHANGED <<backend, global_bindings, group_bindings, global_verifications,
                   now, ret, handlerVars>>

\* texts the live profile status may hold: a code alone, a code among other
\* words, the mark of an expired record, nothing
Statuses == {"222222", "my code 111111", ExpiredCode, ""}

\* code in status_desc, for the texts of Statuses
Contains(status, c) ==
    \/ status = c
    \/ status = "my code 111111" /\ c = "111111"

\* MessageHandler._cmd_verify, given what it is told from outside: found is
\* whether the game account exists, status its live status text, settings
\* whether the group settings read after the writes gives text
_cmd_verify_told(q, g, found, status, settings) ==
    /\ nops < MaxCmds
    /\ nops' = nops + 1
    /\ UNCHANGED <<backend, now, ret, handlerVars>>
    /\ LET vs == get_verification(verifications, q)
           v == CHOOSE r \in vs : TRUE
           old == StoredCode(verifications, q)
           gv == get_global_verification(global_verifications, q)
           target == IF gv # {} THEN (CHOOSE r \in gv : TRUE).vrc_user_id
                     ELSE v.vrc_user_id
           Refuse(kind) ==
               /\ reply' = Reply("verify", q, kind, "", FALSE, old)
               /\ UNCHANGED <<global_bindings, group_bindings, global_verifications,
                              verifications>>
       IN CASE get_binding(global_bindings, q) # {} -> Refuse("already_bound_verify")
            [] get_binding(global_bindings, q) = {} /\ vs = {} ->
                  Refuse("no_verification_request")
            [] OTHER ->
                  IF v.is_expired \/ calculate_verification_elapsed(v, now) > code_expiry
                  THEN Refuse("verification_expired")
                  ELSE IF ~found THEN Refuse("user_not_found")
                  ELSE IF ~Contains(status, v.code)
                  THEN /\ reply' = Detail(Reply("verify", q, "verification_failed",
                                                v.code, FALSE, old),
                                          IF status = "" THEN "(empty)" ELSE status)
                       /\ UNCHANGED <<global_bindings, group_bindings,
                                      global_verifications, verifications>>
                  ELSE /\ global_bindings' =
                             BindGlobal(backend, global_bindings, q, target, "verified", g)
                       /\ group_bindings' =
                             BindGroup(backend, global_bindings, group_bindings, q, target, g)
                       /\ verifications' = delete_verification(verifications, q)
                       /\ IF ~BindOk(backend, global_bindings, q, target)
                          THEN /\ reply' = Reply("verify", q, "verification_save_failed",
                                                 "", FALSE, old)
                               /\ UNCHANGED global_verifications
                          ELSE /\ global_verifications' =
                                     IF gv # {} THEN global_verifications
                                     ELSE global_verifications
                                             \cup {GlobalVerificationRow(
                                                      q, v.vrc_user_id, "verified")}
                               /\ reply' =
                                     Reply("verify", q,
                                           IF g # None /\ ~settings
                                           THEN "verification_process_error"
                                           ELSE "verification_success",
                                           "", FALSE, old)

\* the handler gets as far as asking for the game account
Asks(q) ==
    /\ get_binding(global_bindings, q) = {}
    /\ \E v \in get_verification(verifications, q) :
          ~(v.is_expired \/ calculate_verification_elapsed(v, now) > code_expiry)

\* MessageHandler._cmd_verify, whatever it is told; what it does not read
\* is given one value
_cmd_verify(q, g) ==
    \E found \in BOOLEAN, status \in Statuses, settings \in BOOLEAN :
        /\ ~Asks(q) => ~found
        /\ ~found => status = "" /\ settings
        /\ ~settings => g # None /\ Contains(status, StoredCode(verifications, q))
        /\ _cmd_verify_told(q, g, found, status, settings)

ExpirySweep == verification_expiry_task
MemberJoined == \E g \in Groups, q \in QQs, v \in VrcIds : _initiate_new_verification(g, q, v)
CmdCode == \E q \in QQs : _cmd_code(q)
CmdVerify == \E q \in QQs, g \in Groups \cup {None} : _cmd_verify(q, g)

NextVerify == Tick \/ ExpirySweep \/ MemberJoined \/ CmdCode \/ CmdVerify

SpecVerify == Init /\ [][NextVerify]_vars

----------------------------------------------------------------------------
(* Verify attempts against stores that already hold rows.  The clock moves
   in waits that outlast a code. *)

\* stores the commands may find: empty; account 2 bound to usr_1 by manual_bind
\* in group 10; account 1 verified as usr_2 and since unbound globally
VerifyStores ==
    { [gb |-> {}, grp |-> {}, gv |-> {}],
      [gb |-> {GlobalRow(2, "usr_1", "manual", 10)},
       grp |-> {GroupRow(10, 2, "usr_1")}, gv |-> {}],
      [gb |-> {}, grp |-> {}, gv |-> {GlobalVerificationRow(1, "usr_2", "verified")}] }

InitAttempt ==
    /\ backend \in Backends
    /\ \E st \in VerifyStores :
          /\ global_bindings = st.gb
          /\ group_bindings = st.grp
          /\ global_verifications = st.gv
    /\ verifications = {}
    /\ IdleHandlers
    /\ now = 0
    /\ reply = NoReply
    /\ ret = NoRet
    /\ nops = 0

\* a wait one second longer than code_expiry
Lapse ==
    /\ now < MaxSeconds * TicksPerSecond
    /\ now' = now + (code_expiry + 1) * TicksPerSecond
    /\ UNCHANGED <<storeVars, reply, ret, nops, handlerVars>>

NextAttempt == Lapse \/ ExpirySweep \/ MemberJoined \/ CmdCode \/ CmdVerify

SpecAttempt == InitAttempt /\ [][NextAttempt]_vars

----------------------------------------------------------------------------
(* The member-joined handler of the current revision, with the Pending Join
   Cache filled by approved join requests.  One action is one run of a
   handler. *)

\* seconds a cached candidate stays usable
pending_ttl == 1800

\* generate_verification_code(length=6)
code_length == 6

\* approved requests and waits happen among the first MaxSteps operations
MaxSteps == 2

\* an entry that is usable whatever its age
PendingLive_Always(p, t) == TRUE

\* an entry that is never usable
PendingLive_Never(p, t) == FALSE

\* time.time() - pending["time"] < 1800
PendingLive(p, t) == t - p.time < pending_ttl * TicksPerSecond

\* _get_pending_binding_info: the account's entry, when it is still usable
_get_pending_binding_info(pb, u, t) ==
    {p \in pb : p.qq_id = u /\ PendingLive(p, t)}

\* a lookup that leaves the entry in the cache
PopPending_Keep(pb, u) == pb

\* self._pending_bindings.pop(user_id)
PopPending(pb, u) == {p \in pb : p.qq_id # u}

\* the reminder that follows the instruction, by verification mode
Reminder(m) ==
    CASE m = "mixed" -> "mute_reminder"
      [] m = "strict" -> "kick_reminder"
      [] OTHER -> ""

\* _handle_auto_verify_success: the bind, whose result is not looked at, then
\* the group settings are read (s) for the rename and the welcome
_handle_auto_verify_success(g, u, v) ==
    /\ global_bindings' = BindGlobal(backend, global_bindings, u, v, "auto", g)
    /\ group_bindings' = BindGroup(backend, global_bindings, group_bindings, u, v, g)
    /\ \E s \in SettingReads :
          reply' = Detail(Reply("joined", u, "auto_verified", "", FALSE, ""),
                          CASE s = "none" -> "raised"
                            [] s = "true" -> "welcome_back"
                            [] OTHER -> "")
    /\ UNCHANGED <<global_verifications, verifications>>

\* _process_group_increase: m is the verification mode read, c the code
\* generated, s the enable_welcome setting read; the reply of the last branch
\* notes whether an unusable entry was popped
_process_group_increase_run(g, u) ==
    /\ LET gv == get_global_verification(global_verifications, u)
           pending == _get_pending_binding_info(pending_bindings, u, now)
       IN IF gv # {}
          THEN /\ _handle_auto_verify_success(g, u, (CHOOSE r \in gv : TRUE).vrc_user_id)
               /\ UNCHANGED pending_bindings
          ELSE /\ pending_bindings' = PopPending(pending_bindings, u)
               /\ UNCHANGED <<global_bindings, group_bindings, global_verifications>>
               /\ IF pending # {}
                  THEN \E m \in Modes, c \in Codes :
                          /\ verifications' =
                                add_verification(verifications, u,
                                                 (CHOOSE p \in pending : TRUE).id, c, now)
                          /\ reply' = Detail(Reply("joined", u, "verification_request",
                                                   c, TRUE, StoredCode(verifications, u)),
                                             Reminder(m))
                  ELSE /\ UNCHANGED verifications
                       /\ \E s \in SettingReads :
                             reply' = Detail(Reply("joined", u,
                                                   CASE s = "none" -> "raised"
                                                     [] s = "true" -> "welcome_reminder"
                                                     [] OTHER -> "none",
                                                   "", FALSE, ""),
                                             IF PopPending(pending_bindings, u)
                                                    # pending_bindings
                                             THEN "pending_dropped" ELSE "")
    /\ UNCHANGED <<backend, now, ret, revision, handled_flags, outbox>>

\* a member-joined event delivered to the handler
_process_group_increase(g, u) ==
    /\ nops < MaxOps
    /\ _process_group_increase_run(g, u)
    /\ nops' = nops + 1
    /\ UNCHANGED task

\* _process_group_add, when it approves a request after caching the candidate
_process_group_add_cached(u, v) ==
    /\ nops < MaxSteps
    /\ pending_bindings' = CachePending(pending_bindings, u, v)
    /\ nops' = nops + 1
    /\ UNCHANGED <<storeVars, now, reply, ret, revision, task, handled_flags, outbox>>

\* the clock moves on by d ticks
Wait(d) ==
    /\ nops < MaxSteps
    /\ now' = now + d
    /\ nops' = nops + 1
    /\ UNCHANGED <<storeVars, reply, ret, handlerVars>>

\* a wait of pending_ttl, or of one tick less
Elapse == \E d \in {pending_ttl * TicksPerSecond - 1, pending_ttl * TicksPerSecond} : Wait(d)

\* manual_bind: an administrator binds a member of the group
GroupBind == \E q \in QQs, v \in VrcIds, g \in Groups : bind_user(q, v, "manual", g)

RequestApproved == \E u \in QQs, v \in VrcIds : _process_group_add_cached(u, v)
MemberIncrease == \E g \in Groups, u \in QQs : _process_group_increase(g, u)

NextMember ==
    \/ Elapse
    \/ GroupBind
    \/ AddGlobalVerification
    \/ MemberLeft
    \/ RequestApproved
    \/ MemberIncrease

SpecMember == Init /\ [][NextMember]_vars

----------------------------------------------------------------------------
(* _check_security_policies on its own: one request that has reached the
   policy checks, in every world the checks may find. *)

\* the request: its account, the game account its comment names, the world
PolicyTask(u, v, p) ==
    [pc |-> "policy", user_id |-> u, vrc |-> v, policy |-> p,
     result |-> PolicyResult(FALSE, "", <<>>)]

InitPolicy ==
    /\ backend = "sqlite"
    /\ \E st \in JoinStores :
          /\ global_bindings = st.gb
          /\ group_bindings = st.grp
          /\ global_verifications = st.gv
    /\ verifications = {}
    /\ revision \in Revisions
    /\ \E u \in QQs, v \in VrcIds, p \in PolicyInputs :
          /\ revision = "legacy" => p.check_group # "none" /\ p.check_troll # "none"
          /\ task = <<PolicyTask(u, v, p)>>
    /\ handled_flags = {}
    /\ pending_bindings = {}
    /\ outbox = <<>>
    /\ now = 0
    /\ reply = NoReply
    /\ ret = NoRet
    /\ nops = 0

\* the call of _check_security_policies, and what it returns
PolicyCheck ==
    /\ task[1].pc = "policy"
    /\ task' = [task EXCEPT
                   ![1].pc = "done",
                   ![1].result =
                       _check_security_policies(
                           revision,
                           _check_bind_conflict(global_bindings, task[1].vrc,
                                                task[1].user_id) # {},
                           task[1].policy)]
    /\ UNCHANGED <<storeVars, now, reply, ret, nops, revision, handled_flags,
                   pending_bindings, outbox>>

NextPolicy == PolicyCheck

SpecPolicy == InitPolicy /\ [][NextPolicy]_vars

----------------------------------------------------------------------------
(* Strict mode: an account with a binding in the group asks to join, is let
   in, joins, and may or may not verify while time passes.  What the handlers
   and the scheduler do in the meantime is all there is: no other code runs. *)

\* _process_group_add in strict mode for a comment that names game account v,
\* sent by an account that has neither a Global Verification nor a Binding
\* but has a binding in the group: the candidate is cached and the request
\* approved
_process_group_add_strict(g, u, v) ==
    /\ nops < MaxOps
    /\ get_global_verification(global_verifications, u) = {}
    /\ get_binding(global_bindings, u) = {}
    /\ get_group_member_binding(group_bindings, g, u) # {}
    /\ pending_bindings' = CachePending(pending_bindings, u, v)
    /\ outbox' = Send(outbox, "approve", "flag_a")
    /\ nops' = nops + 1
    /\ UNCHANGED <<storeVars, now, reply, ret, revision, task, handled_flags>>

\* qq_client.kick_group_member has been called
Kicked == \E k \in DOMAIN outbox : outbox[k].action = "kick"

InitStrict ==
    /\ backend = "sqlite"
    /\ \E st \in JoinStores :
          /\ global_bindings = st.gb
          /\ group_bindings = st.grp
          /\ global_verifications = st.gv
    /\ verifications = {}
    /\ IdleHandlers
    /\ now = 0
    /\ reply = NoReply
    /\ ret = NoRet
    /\ nops = 0

StrictAdmit == \E g \in Groups, u \in QQs, v \in VrcIds : _process_group_add_strict(g, u, v)

NextStrict == Tick \/ StrictAdmit \/ MemberIncrease \/ CmdVerify

\* time passes, and every handler that can run does
SpecStrict == InitStrict /\ [][NextStrict]_vars /\ WF_vars(NextStrict)

----------------------------------------------------------------------------
(* The bind and unbind commands of a group's administrators, and the global
   bind command of the bot's super administrator, each run from its first
   line to its reply. *)

\* validate_vrc_user_for_binding: the error it returns, "" when it returns the
\* user; found is whether _find_vrc_user finds the game account
validate_vrc_user_for_binding(gb, gv, q, v, found) ==
    IF ~found THEN "not_found"
    ELSE IF \E r \in get_global_verification(gv, q) : r.vrc_user_id # v
    THEN "globally_verified"
    ELSE IF _check_bind_conflict(gb, v, q) # {} THEN "conflict"
    ELSE ""

\* GroupHandler.manual_bind, run without interruption
manual_bind(q, v, g, found) ==
    LET error == validate_vrc_user_for_binding(global_bindings, global_verifications,
                                               q, v, found)
        kind == IF error # "" THEN error
                ELSE IF g # None /\ get_group_member_binding(group_bindings, g, q) # {}
                THEN "bound_in_group"
                ELSE IF \E r \in get_binding(global_bindings, q) :
                           r.origin_group_id # None /\ r.origin_group_id # g
                THEN "bound_globally"
                ELSE IF BindOk(backend, global_bindings, q, v) THEN "bind_success"
                ELSE "database_error"
    IN /\ reply' = Reply("bind", q, kind, "", FALSE, "")
       /\ IF kind \in {"bind_success", "database_error"}
          THEN /\ global_bindings' = BindGlobal(backend, global_bindings, q, v, "manual", g)
               /\ group_bindings' = BindGroup(backend, global_bindings, group_bindings, q, v, g)
          ELSE UNCHANGED <<global_bindings, group_bindings>>
       /\ UNCHANGED <<backend, global_verifications, verifications>>

\* MessageHandler._cmd_bind in group g: member is whether the target account
\* is in the group
_cmd_bind(g, q, v, member, found) ==
    /\ nops < MaxOps
    /\ nops' = nops + 1
    /\ UNCHANGED <<now, ret, handlerVars>>
    /\ IF ~member
       THEN /\ reply' = Reply("bind", q, "user_not_in_group", "", FALSE, "")
            /\ UNCHANGED storeVars
       ELSE manual_bind(q, v, g, found)

\* an unbind that takes the account's global verification with it
_cmd_unbind_Global(g, q, member, admin) ==
    /\ nops < MaxOps
    /\ nops' = nops + 1
    /\ UNCHANGED <<backend, verifications, now, ret, handlerVars>>
    /\ reply' = Reply("unbind", q, "unbind_success", "", FALSE, "")
    /\ group_bindings' = DeleteGroupRow(group_bindings, g, q)
    /\ global_bindings' = ClearOrigin(global_bindings, g, q)
    /\ global_verifications' = {r \in global_verifications : r.qq_id # q}

\* MessageHandler._cmd_unbind in group g: admin is the is_admin argument
_cmd_unbind(g, q, member, admin) ==
    /\ nops < MaxOps
    /\ nops' = nops + 1
    /\ UNCHANGED <<backend, global_verifications, verifications, now, ret, handlerVars>>
    /\ IF ~member \/ ~admin
       THEN /\ reply' = Reply("unbind", q,
                              IF ~member THEN "user_not_in_group" ELSE "none",
                              "", FALSE, "")
            /\ UNCHANGED <<global_bindings, group_bindings>>
       ELSE /\ group_bindings' = DeleteGroupRow(group_bindings, g, q)
            /\ global_bindings' = ClearOrigin(global_bindings, g, q)
            /\ reply' = Reply("unbind", q,
                              IF get_group_member_binding(group_bindings, g, q) # {}
                              THEN "unbind_success" ELSE "unbind_failed",
                              "", FALSE, "")

\* MessageHandler._cmd_glbind, sent by the super administrator: the global
\* verification is written whatever bind_user returned
_cmd_glbind(q, v, found) ==
    LET error == validate_vrc_user_for_binding(global_bindings, global_verifications,
                                               q, v, found)
    IN /\ nops < MaxOps
       /\ nops' = nops + 1
       /\ UNCHANGED <<backend, verifications, now, ret, handlerVars>>
       /\ IF error # ""
          THEN /\ reply' = Reply("glbind", q, error, "", FALSE, "")
               /\ UNCHANGED <<global_bindings, group_bindings, global_verifications>>
          ELSE /\ global_bindings' =
                     BindGlobal(backend, global_bindings, q, v, "manual_global", None)
               /\ group_bindings' =
                     BindGroup(backend, global_bindings, group_bindings, q, v, None)
               /\ global_verifications' =
                     {r \in global_verifications : r.qq_id # q}
                        \cup {GlobalVerificationRow(q, v, "admin")}
               /\ reply' = Reply("glbind", q,
                                 IF BindOk(backend, global_bindings, q, v)
                                 THEN "global_bind_success"
                                 ELSE "database_operation_failed",
                                 "", FALSE, "")

CmdBind ==
    \E g \in Groups, q \in QQs, v \in VrcIds, member \in BOOLEAN, found \in BOOLEAN :
        /\ ~member => found
        /\ _cmd_bind(g, q, v, member, found)

CmdUnbind ==
    \E g \in Groups, q \in QQs, member \in BOOLEAN, admin \in BOOLEAN :
        /\ ~member => admin
        /\ _cmd_unbind(g, q, member, admin)

CmdGlbind == \E q \in QQs, v \in VrcIds, found \in BOOLEAN : _cmd_glbind(q, v, found)

NextAdmin == CmdBind \/ CmdUnbind \/ CmdGlbind

SpecAdmin == Init /\ [][NextAdmin]_vars

----------------------------------------------------------------------------
(* EventRouter.dispatch, one task per inbound frame.  The task variable holds
   the dispatches in flight and outbox what they call, in order: the calls of
   handlers, of the chat client and of the logger. *)

\* inbound frames in one run
MaxFrames == 2

\* the post_type of a frame: the four registered ones, another text, or no
\* text at all
PostTypes == {"message", "request", "notice", "meta_event", "other", "absent"}

\* what dispatch reads of a frame: whether it has the key echo, its post_type,
\* whether it has the key meta_event_type
Frames == [echo : BOOLEAN, post_type : PostTypes, meta : BOOLEAN]

\* EventRouter._handlers
_handlers ==
    [message |-> "_handle_message", request |-> "_handle_request",
     notice |-> "_handle_notice", meta_event |-> "_handle_meta_event"]

\* the methods class QQClient defines
QQClientMethods ==
    {"send_group_msg", "send_private_msg", "get_group_member_info",
     "get_group_member_list", "set_group_card", "get_stranger_info"}

\* the calls dispatch can make of a handler
HandlerCalls == {_handlers[t] : t \in DOMAIN _handlers}

\* dispatch returns to its caller
Returned(i) == task' = [task EXCEPT ![i].pc = "done", ![i].result = "returned"]

\* an except clause that raises again
Caught_Reraise(i) ==
    /\ outbox' = Send(outbox, "logger.error", i)
    /\ task' = [task EXCEPT ![i].pc = "done", ![i].result = "raised"]

\* except Exception as e: logger.error(...)
Caught(i) ==
    /\ outbox' = Send(outbox, "logger.error", i)
    /\ Returned(i)

\* post_type as dispatch settles it: "" when dispatch returns for want of one
SettledPostType(f) ==
    IF f.post_type # "absent" THEN f.post_type
    ELSE IF f.meta THEN "meta_event"
    ELSE ""

\* dispatch up to its first await: a frame with echo goes to
\* qq_client.handle_response, an attribute the client may not have; any other
\* frame goes to the handler of its post_type, which is then awaited
dispatch_enter(i) ==
    LET f == task[i].frame
        post_type == SettledPostType(f)
    IN /\ task[i].pc = "dispatch"
       /\ IF f.echo
          THEN IF "handle_response" \in QQClientMethods
               THEN outbox' = Send(outbox, "handle_response", i) /\ Returned(i)
               ELSE Caught(i)
          ELSE IF post_type = ""
          THEN Returned(i) /\ UNCHANGED outbox
          ELSE IF post_type \in DOMAIN _handlers
          THEN /\ outbox' = Send(outbox, _handlers[post_type], i)
               /\ Goto(i, "handler")
          ELSE /\ outbox' = Send(outbox, "logger.debug", i)
               /\ Returned(i)
       /\ UNCHANGED <<storeVars, now, reply, ret, nops, revision, handled_flags,
                      pending_bindings>>

\* await handler(data): the handler returns or raises
dispatch_handler(i) ==
    /\ task[i].pc = "handler"
    /\ \/ Returned(i) /\ UNCHANGED outbox
       \/ Caught(i)
    /\ UNCHANGED <<storeVars, now, reply, ret, nops, revision, handled_flags,
                   pending_bindings>>

RouterTask(f) == [pc |-> "dispatch", frame |-> f, result |-> "none"]

\* MaxFrames frames have come in, each dispatched as a task
InitRouter ==
    /\ backend = "sqlite"
    /\ global_bindings = {}
    /\ group_bindings = {}
    /\ global_verifications = {}
    /\ verifications = {}
    /\ revision = "legacy"
    /\ task \in [1 .. MaxFrames -> {RouterTask(f) : f \in Frames}]
    /\ handled_flags = {}
    /\ pending_bindings = {}
    /\ outbox = <<>>
    /\ now = 0
    /\ reply = NoReply
    /\ ret = NoRet
    /\ nops = 0

DispatchEnter == \E i \in DOMAIN task : dispatch_enter(i)
DispatchHandler == \E i \in DOMAIN task : dispatch_handler(i)

NextRouter == DispatchEnter \/ DispatchHandler

SpecRouter == InitRouter /\ [][NextRouter]_vars

----------------------------------------------------------------------------
(* The Scheduler: start, stop, the registry of cleanup jobs and the three
   loops.  In this part the task variable is the scheduler's own state: its
   fields, the position of start and of stop, and one entry per loop task.  A
   step of a loop runs from one await to the next.  A loop task is created,
   waits at an await (sleep, ping, job, thread), and ends finished (the while
   test failed), cancelled, or failed (an exception left the coroutine). *)

\* cleanup jobs that may be registered
MaxJobs == 2

SchedLoops == {"monitor", "cleanup", "expiry"}

\* a task that is done, as asyncio.Task.done() tells
Done(t) == t.pc \in {"finished", "cancelled", "failed"}

\* Scheduler.__init__: not running, no tasks, no jobs
SchedulerIdle ==
    [scheduler |-> [_running |-> FALSE, start |-> "idle", stop |-> "idle", jobs |-> 0],
     monitor |-> [pc |-> "none", logged |-> ""],
     cleanup |-> [pc |-> "none", ran |-> <<>>],
     expiry |-> [pc |-> "none", thread |-> FALSE, logged |-> ""]]

\* the while self._running test at the top of a loop: the next await, or the
\* end of the coroutine
While(t, pc) == IF t.scheduler._running THEN pc ELSE "finished"

\* an except clause that lets the exception out of the coroutine
Tolerate_Die(t, l, pc) == [t EXCEPT ![l].pc = "failed"]

\* except ...: logger.warning / logger.error, and the coroutine goes on at pc
Tolerate(t, l, pc) == [t EXCEPT ![l].pc = pc]

\* Scheduler.register_cleanup_job
register_cleanup_job ==
    /\ task.scheduler.jobs < MaxJobs
    /\ task' = [task EXCEPT !.scheduler.jobs = @ + 1]
    /\ UNCHANGED <<storeVars, now, reply, ret, nops, revision, handled_flags,
                   pending_bindings, outbox>>

\* Scheduler.start up to await asyncio.gather: the three tasks are created
start_enter ==
    /\ task.scheduler.start = "idle"
    /\ task.scheduler.stop = "idle"
    /\ task' = [task EXCEPT !.scheduler._running = TRUE,
                            !.scheduler.start = "gather",
                            !.monitor.pc = "created",
                            !.cleanup.pc = "created",
                            !.expiry.pc = "created"]
    /\ UNCHANGED <<storeVars, now, reply, ret, nops, revision, handled_flags,
                   pending_bindings, outbox>>

\* a created task runs up to its first await
loop_begin(l) ==
    /\ task[l].pc = "created"
    /\ task' = [task EXCEPT ![l].pc = While(task, IF l = "expiry" THEN "thread" ELSE "sleep"),
                            !.expiry.thread =
                                IF l = "expiry" THEN task.scheduler._running ELSE @]
    /\ UNCHANGED <<storeVars, now, reply, ret, nops, revision, handled_flags,
                   pending_bindings, outbox>>

\* monitor_connection after asyncio.sleep(30): ws is what ws_manager.ws holds.
\* The legacy QQWebSocketManager has no attribute ws, and the read of it is
\* outside the try.
monitor_wake(ws) ==
    /\ task.monitor.pc = "sleep"
    /\ task' = IF revision = "legacy" THEN [task EXCEPT !.monitor.pc = "failed"]
               ELSE IF ws \in {"none", "closed"}
               THEN [task EXCEPT !.monitor.pc = While(task, "sleep")]
               ELSE [task EXCEPT !.monitor.pc = "ping"]
    /\ UNCHANGED <<storeVars, now, reply, ret, nops, revision, handled_flags,
                   pending_bindings, outbox>>

\* monitor_connection at the ping: the pong comes, or wait_for times out, or
\* ping raises
monitor_ping(outcome) ==
    /\ task.monitor.pc = "ping"
    /\ task' = IF outcome = "pong"
               THEN [task EXCEPT !.monitor.pc = While(task, "sleep"), !.monitor.logged = ""]
               ELSE Tolerate([task EXCEPT !.monitor.logged = outcome],
                             "monitor", While(task, "sleep"))
    /\ UNCHANGED <<storeVars, now, reply, ret, nops, revision, handled_flags,
                   pending_bindings, outbox>>

\* cleanup_task after asyncio.sleep(3600): a cycle begins with the first job,
\* if there is one
cleanup_wake ==
    /\ task.cleanup.pc = "sleep"
    /\ task' = [task EXCEPT !.cleanup.ran = <<>>,
                            !.cleanup.pc = IF task.scheduler.jobs > 0 THEN "job"
                                           ELSE While(task, "sleep")]
    /\ UNCHANGED <<storeVars, now, reply, ret, nops, revision, handled_flags,
                   pending_bindings, outbox>>

\* cleanup_task at await job(): the job returns or raises, and the for loop
\* goes on to the next job of the registry
cleanup_job(outcome) ==
    LET ran == Append(task.cleanup.ran, outcome)
        next == IF Len(ran) < task.scheduler.jobs THEN "job" ELSE While(task, "sleep")
        t == [task EXCEPT !.cleanup.ran = ran]
    IN /\ task.cleanup.pc = "job"
       /\ task' = IF outcome = "returned" THEN [t EXCEPT !.cleanup.pc = next]
                  ELSE Tolerate(t, "cleanup", next)
       /\ UNCHANGED <<storeVars, now, reply, ret, nops, revision, handled_flags,
                      pending_bindings, outbox>>

\* db.expire_outdated_verifications in its worker thread
sweep_thread ==
    verifications' = expire_outdated_verifications(backend, verifications, now, code_expiry)

\* verification_expiry_task at await asyncio.to_thread(...): the call returns
\* its count, or the round raises, and the task goes to asyncio.sleep(10)
expiry_thread(outcome) ==
    /\ task.expiry.pc = "thread"
    /\ IF outcome = "returned"
       THEN /\ sweep_thread
            /\ task' = [task EXCEPT !.expiry.pc = "sleep", !.expiry.thread = FALSE,
                                    !.expiry.logged = ""]
       ELSE /\ UNCHANGED verifications
            /\ task' = Tolerate([task EXCEPT !.expiry.thread = FALSE,
                                             !.expiry.logged = "error"],
                                "expiry", "sleep")
    /\ UNCHANGED <<backend, global_bindings, group_bindings, global_verifications,
                   now, reply, ret, nops, revision, handled_flags, pending_bindings, outbox>>

\* verification_expiry_task after asyncio.sleep(10): the next round is handed
\* to a worker thread
expiry_wake ==
    /\ task.expiry.pc = "sleep"
    /\ task' = [task EXCEPT !.expiry.pc = While(task, "thread"),
                            !.expiry.thread = task.scheduler._running]
    /\ UNCHANGED <<storeVars, now, reply, ret, nops, revision, handled_flags,
                   pending_bindings, outbox>>

\* the worker thread of a round whose task was cancelled runs to its end
sweep_thread_orphan ==
    /\ Done(task.expiry)
    /\ task.expiry.thread
    /\ sweep_thread
    /\ task' = [task EXCEPT !.expiry.thread = FALSE]
    /\ UNCHANGED <<backend, global_bindings, group_bindings, global_verifications,
                   now, reply, ret, nops, revision, handled_flags, pending_bindings, outbox>>

\* task.cancel() for every task that is not done: CancelledError is thrown
\* into the task at the await it waits at, and no except clause of the loops
\* catches it
Cancel(t) ==
    [l \in DOMAIN t |->
        IF l \in SchedLoops /\ t[l].pc # "none" /\ ~Done(t[l])
        THEN [t[l] EXCEPT !.pc = "cancelled"] ELSE t[l]]

\* a stop that clears the flag and cancels nothing
stop_enter_NoCancel ==
    /\ task.scheduler.stop = "idle"
    /\ task' = [task EXCEPT !.scheduler._running = FALSE, !.scheduler.stop = "returned"]
    /\ UNCHANGED <<storeVars, now, reply, ret, nops, revision, handled_flags,
                   pending_bindings, outbox>>

\* Scheduler.stop up to await asyncio.gather(*self._tasks, return_exceptions=True),
\* or to its end when there are no tasks
stop_enter ==
    /\ task.scheduler.stop = "idle"
    /\ task' = [Cancel(task) EXCEPT
                   !.scheduler._running = FALSE,
                   !.scheduler.stop = IF task.scheduler.start = "idle"
                                      THEN "returned" ELSE "gather"]
    /\ UNCHANGED <<storeVars, now, reply, ret, nops, revision, handled_flags,
                   pending_bindings, outbox>>

\* the gather of stop returns when every task is done
stop_return ==
    /\ task.scheduler.stop = "gather"
    /\ \A l \in SchedLoops : Done(task[l])
    /\ task' = [task EXCEPT !.scheduler.stop = "returned"]
    /\ UNCHANGED <<storeVars, now, reply, ret, nops, revision, handled_flags,
                   pending_bindings, outbox>>

\* the gather of start returns: a task raised, or every task is done
start_return ==
    /\ task.scheduler.start = "gather"
    /\ \/ \E l \in SchedLoops : task[l].pc \in {"failed", "cancelled"}
       \/ \A l \in SchedLoops : Done(task[l])
    /\ task' = [task EXCEPT !.scheduler.start = "returned"]
    /\ UNCHANGED <<storeVars, now, reply, ret, nops, revision, handled_flags,
                   pending_bindings, outbox>>

\* an account is waiting for its code to be checked when the scheduler starts,
\* or none is
InitSched ==
    /\ backend \in Backends
    /\ global_bindings = {}
    /\ group_bindings = {}
    /\ global_verifications = {}
    /\ verifications \in {{}, {VerificationRow(1, "usr_1", "111111", 0, FALSE)}}
    /\ revision \in Revisions
    /\ task = SchedulerIdle
    /\ handled_flags = {}
    /\ pending_bindings = {}
    /\ outbox = <<>>
    /\ now \in {0, (code_expiry + 1) * TicksPerSecond}
    /\ reply = NoReply
    /\ ret = NoRet
    /\ nops = 0

SchedulerStart == start_enter
SchedulerStartReturn == start_return
SchedulerStop == stop_enter
SchedulerStopReturn == stop_return
RegisterCleanupJob == register_cleanup_job
LoopBegin == \E l \in SchedLoops : loop_begin(l)
MonitorWake == \E ws \in {"none", "closed", "open"} : monitor_wake(ws)
MonitorPing == \E outcome \in {"pong", "TimeoutError", "Exception"} : monitor_ping(outcome)
CleanupWake == cleanup_wake
CleanupJob == \E outcome \in {"returned", "raised"} : cleanup_job(outcome)
ExpiryThread == \E outcome \in {"returned", "raised"} : expiry_thread(outcome)
ExpiryWake == expiry_wake
SweepThreadOrphan == sweep_thread_orphan

NextSched ==
    \/ SchedulerStart
    \/ SchedulerStartReturn
    \/ SchedulerStop
    \/ SchedulerStopReturn
    \/ RegisterCleanupJob
    \/ LoopBegin
    \/ MonitorWake
    \/ MonitorPing
    \/ CleanupWake
    \/ CleanupJob
    \/ ExpiryThread
    \/ ExpiryWake
    \/ SweepThreadOrphan

SpecSched == InitSched /\ [][NextSched]_vars

----------------------------------------------------------------------------
(* Binding Store claims, checked under Spec *)

\* C1: after any sequence of Bind, UnbindFromGroup and UnbindGlobally the global
\* binding table holds at most one row per chat account id and at most one row
\* per game account id.
C1_UniqueBindings ==
    \A r1, r2 \in global_bindings :
        (r1.qq_id = r2.qq_id \/ r1.vrc_user_id = r2.vrc_user_id) => r1 = r2

\* a bind has just collided with another account's row: it was refused, or the
\* other row was displaced
C1_Witness ==
    /\ ret.op = "bind_user"
    /\ ~ret.ok \/ ret.deleted > 0
    /\ global_bindings # {}

\* C2: a Bind that names a game account id already bound to a different chat
\* account fails and leaves the owner's row as it was.
C2_ConflictingBindFails ==
    [][\A q \in QQs, v \in VrcIds, t \in BindTypes, g \in Groups \cup {None} :
          (bind_user(q, v, t, g) /\ MysqlDuplicate(global_bindings, q, v))
              => /\ ret'.ok = FALSE
                 /\ \A r \in global_bindings :
                        r.vrc_user_id = v => r \in global_bindings']_vars

\* C4: UnbindFromGroup(G, U), also as the member-left handler, removes the row
\* (G, U) of the group tables and nothing else; every global verification stays;
\* every global binding row stays, the origin group id of U's row being cleared
\* when it is G.
C4_UnbindFromGroupFrame ==
    [][\A g \in Groups, q \in QQs :
          unbind_user_from_group(g, q)
              => /\ global_verifications' = global_verifications
                 /\ group_bindings' \subseteq group_bindings
                 /\ \A r \in group_bindings :
                        (r.group_id # g \/ r.qq_id # q) => r \in group_bindings'
                 /\ Cardinality(global_bindings') = Cardinality(global_bindings)
                 /\ \A r \in global_bindings :
                        IF r.qq_id = q /\ r.origin_group_id = g
                        THEN [r EXCEPT !.origin_group_id = None] \in global_bindings'
                        ELSE r \in global_bindings']_vars

\* U has just been unbound from its origin group (the origin is cleared) and
\* still holds its global binding, a binding in another group and its global
\* verification
C4_Witness ==
    /\ ret.op = "unbind_user_from_group" /\ ret.ok
    /\ \E r \in global_bindings : r.qq_id = ret.qq_id /\ r.origin_group_id = None
    /\ \E r \in group_bindings : r.qq_id = ret.qq_id
    /\ \E r \in global_verifications : r.qq_id = ret.qq_id

\* C5: after UnbindGlobally(U) returns success no global binding row and no
\* group-scoped binding row of U exists.
C5_UnbindGloballyRemovesAll ==
    [][\A q \in QQs :
          (unbind_user_globally(q) /\ ret'.ok)
              => /\ \A r \in global_bindings' : r.qq_id # q
                 /\ \A r \in group_bindings' : r.qq_id # q]_vars

\* a global unbind has removed the account's global row and its rows in two
\* groups, while another account's rows are still there
C5_Witness ==
    /\ ret.op = "unbind_user_globally" /\ ret.ok
    /\ ret.deleted >= 3
    /\ \E r \in global_bindings : r.qq_id # ret.qq_id
    /\ \E r \in group_bindings : r.qq_id # ret.qq_id

\* C6: a Bind applied to an account whose global row has a non-null origin group
\* id leaves that origin group id as it was, whatever group id is passed.
C6_BindKeepsOrigin ==
    [][\A q \in QQs, v \in VrcIds, t \in BindTypes, g \in Groups \cup {None} :
          bind_user(q, v, t, g)
              => \A r \in global_bindings :
                    (r.qq_id = q /\ r.origin_group_id # None)
                        => \E s \in global_bindings' :
                              s.qq_id = q /\ s.origin_group_id = r.origin_group_id]_vars

----------------------------------------------------------------------------
(* Concurrent binds, checked under SpecRace *)

\* C3: two bind attempts for the same game account id, one for chat account 1
\* and one for chat account 2, running as concurrent tasks: whatever the
\* interleaving, exactly one succeeds and the other is refused with a conflict
\* naming the chat account that won.
C3_ExactlyOneBindWins ==
    (/\ \A i \in BindTasks : task[i].pc = "done" /\ task[i].reply # "not_found"
     /\ task[1].vrc = task[2].vrc)
        => \E i, j \in BindTasks :
              /\ i # j
              /\ task[i].reply = "success"
              /\ task[j].reply = "conflict"
              /\ task[j].named = task[i].qq

----------------------------------------------------------------------------
(* Join requests, checked under SpecJoin *)

\* C7 as stated: once both deliveries of one join-request flag have been
\* handled, the handler having taken the request up (the flag is recorded),
\* exactly one approve-or-reject action has been sent for the flag.
C7_ExactlyOneDecision ==
    (/\ task[1].flag = task[2].flag
     /\ task[1].flag \in handled_flags
     /\ \A i \in JoinTasks : task[i].pc = "done")
        => Cardinality({k \in DOMAIN outbox :
                           /\ outbox[k].flag = task[1].flag
                           /\ outbox[k].action \in {"approve", "reject"}}) = 1

\* C7, amended: however many times a join-request flag is delivered, and
\* however the deliveries interleave, at most one approve-or-reject action is
\* sent for it; a delivery that finds the flag recorded sends nothing.
C7_AtMostOneDecision ==
    \A f \in Flags :
        Cardinality({k \in DOMAIN outbox :
                        /\ outbox[k].flag = f
                        /\ outbox[k].action \in {"approve", "reject"}}) <= 1

\* both deliveries of one flag are done: one decided the request, the other
\* found the flag recorded and returned
C7_Witness ==
    /\ task[1].flag = task[2].flag
    /\ \E i, j \in JoinTasks :
          /\ task[i].pc = "done" /\ task[i].result \in {"approve", "reject"}
          /\ task[j].pc = "done" /\ task[j].result = "duplicate"
    /\ Len(outbox) = 1

----------------------------------------------------------------------------
(* Verification records, checked under SpecVerify *)

\* C8 as stated: a verify attempt made more than code_expiry seconds after the
\* created-at time of the account's record, or on a record whose expired flag
\* is set, is refused and writes no binding and no global verification.
C8_ExpiredVerifyRefused ==
    [][\A q \in QQs, g \in Groups \cup {None} :
          (/\ \E v \in get_verification(verifications, q) :
                 \/ v.is_expired
                 \/ now > (v.created_at + code_expiry) * TicksPerSecond
           /\ _cmd_verify(q, g))
              => /\ reply'.kind \in {"verification_expired", "already_bound_verify"}
                 /\ global_bindings' = global_bindings
                 /\ group_bindings' = group_bindings
                 /\ global_verifications' = global_verifications]_vars

\* C8, amended: a verify attempt made code_expiry + 1 seconds or more after the
\* created-at second of the account's record, or on a record whose expired
\* flag is set, is refused and writes no binding and no global verification,
\* whatever the live status contains.
C8_ExpiredBySecondsVerifyRefused ==
    [][\A q \in QQs, g \in Groups \cup {None} :
          (/\ \E v \in get_verification(verifications, q) :
                 \/ v.is_expired
                 \/ now >= (v.created_at + code_expiry + 1) * TicksPerSecond
           /\ _cmd_verify(q, g))
              => /\ reply'.kind \in {"verification_expired", "already_bound_verify"}
                 /\ global_bindings' = global_bindings
                 /\ group_bindings' = group_bindings
                 /\ global_verifications' = global_verifications]_vars

\* a verify attempt on a record that is too old, its flag not yet set, has
\* just been refused as expired, and the store holds no binding
C8_Witness ==
    /\ reply.cmd = "verify" /\ reply.kind = "verification_expired"
    /\ \E r \in get_verification(verifications, reply.qq_id) :
          /\ ~r.is_expired
          /\ now >= (r.created_at + code_expiry + 1) * TicksPerSecond
    /\ global_bindings = {} /\ global_verifications = {}

C10_OneRecordPerAccount ==
    /\ [](\A r1, r2 \in verifications : r1.qq_id = r2.qq_id => r1 = r2)
    /\ [][\A g \in Groups, q \in QQs, v \in VrcIds :
             _initiate_new_verification(g, q, v)
                 => /\ get_verification(verifications', q)
                          = {VerificationRow(q, v, reply'.code, Seconds(now), FALSE)}
                    /\ {r \in verifications' : r.qq_id # q}
                          = {r \in verifications : r.qq_id # q}]_vars

\* a new challenge has just replaced a record the sweep had flagged: the
\* account has one record, unflagged, with the code just sent
C10_Witness ==
    /\ reply.cmd = "initiate" /\ reply.stale = ExpiredCode
    /\ Cardinality(get_verification(verifications, reply.qq_id)) = 1
    /\ \E r \in get_verification(verifications, reply.qq_id) :
          r.code = reply.code /\ ~r.is_expired /\ r.created_at = Seconds(now)

----------------------------------------------------------------------------
(* Member-joined claims, checked under SpecMember *)

PendingExpired(u) ==
    /\ \E p \in pending_bindings : p.qq_id = u
    /\ \A p \in pending_bindings :
          p.qq_id = u => now - p.time >= pending_ttl * TicksPerSecond

\* C12: a Pending Join Cache entry of 30 minutes or more is treated as absent:
\* a member-joined event for an account without Global Verification that finds
\* only such an entry starts no code challenge and writes nothing to the store,
\* exactly as if the account had never been cached, and the entry is gone.
C12_ExpiredPendingIsAbsent ==
    [][\A g \in Groups, u \in QQs :
          (_process_group_increase(g, u)
              /\ get_global_verification(global_verifications, u) = {}
              /\ PendingExpired(u))
              => /\ UNCHANGED storeVars
                 /\ reply'.kind \in {"welcome_reminder", "none", "raised"}
                 /\ ~reply'.generated
                 /\ \A p \in pending_bindings' : p.qq_id # u]_vars

\* a member joined after its cached candidate had aged out
C12_Witness ==
    /\ reply.cmd = "joined"
    /\ reply.detail = "pending_dropped"
    /\ now >= pending_ttl * TicksPerSecond
    /\ get_verification(verifications, reply.qq_id) = {}

\* the account has an entry of the Pending Join Cache younger than pending_ttl
PendingFresh(u) ==
    \E p \in pending_bindings :
        p.qq_id = u /\ now - p.time < pending_ttl * TicksPerSecond

C19_BoundRejoinRestored ==
    [][\A g \in Groups, u \in QQs :
          (_process_group_increase(g, u) /\ get_binding(global_bindings, u) # {})
              => /\ get_group_member_binding(group_bindings', g, u) # {}
                 /\ verifications' = verifications
                 /\ reply'.kind # "verification_request"]_vars

----------------------------------------------------------------------------
(* Join request claims, checked under SpecJoin and SpecPolicy *)

\* C13: in mixed mode, when the comment of a request from an account with no
\* binding names a game account that passes every policy check, the request is
\* approved and afterwards the Pending Join Cache maps the chat account to
\* that game account.
C13_MixedApprovesAndCaches ==
    [][\A i \in JoinTasks, p \in JoinPolicyInputs :
          (/\ pga_checked(i, p)
           /\ task[i].mode = "mixed"
           /\ _check_security_policies(
                  revision,
                  _check_bind_conflict(global_bindings, task[i].vrc, task[i].user_id) # {},
                  p).passed)
              => /\ task'[i].result = "approve"
                 /\ outbox'[Len(outbox')] = [action |-> "approve", flag |-> task[i].flag]
                 /\ \E e \in pending_bindings' : e.qq_id = task[i].user_id
                 /\ \A e \in pending_bindings' :
                       e.qq_id = task[i].user_id => e.id = task[i].vrc]_vars

\* a mixed-mode request of an unbound account has been approved on its comment
C13_Witness ==
    \E i \in DOMAIN task :
        /\ task[i].pc = "done"
        /\ task[i].mode = "mixed"
        /\ task[i].result = "approve"
        /\ task[i].vrc # ""
        /\ get_binding(global_bindings, task[i].user_id) = {}
        /\ \E e \in pending_bindings : e.qq_id = task[i].user_id /\ e.id = task[i].vrc

\* the place of a check in the order conflict, membership, risk
Rank(c) == CASE c = "conflict" -> 1 [] c = "membership" -> 2 [] c = "risk" -> 3

\* the check fails in the world of the request: the game account is bound to
\* another chat account; it is outside the game group (or, in the current
\* revision, no game group is set); it carries the risk tag
Fails(c, t) ==
    LET p == t.policy
    IN CASE c = "conflict" ->
              /\ p.check_occupy
              /\ _check_bind_conflict(global_bindings, t.vrc, t.user_id) # {}
         [] c = "membership" ->
              /\ p.check_group = "true"
              /\ IF p.has_group_id THEN ~p.is_member ELSE revision = "current"
         [] c = "risk" -> p.check_troll = "true" /\ p.troll

\* the reasons a check rejects with
Reasons(c) ==
    CASE c = "conflict" -> {"reject_already_bound"}
      [] c = "membership" -> {"reject_no_group", "group_config_error"}
      [] c = "risk" -> {"reject_troll"}

\* C15: the policy checks are evaluated in the order conflict, membership,
\* risk and stop at the first failing check: the request passes exactly when
\* no check fails, the reason of a rejection is that of the first failing
\* check, and no check after it is evaluated.
C15_PolicyOrder ==
    \A i \in DOMAIN task :
        (task[i].pc = "done" /\ task[i].result.reason # "raised") =>
            LET t == task[i]
                r == t.result
                Checks == {"conflict", "membership", "risk"}
                failing == {c \in Checks : Fails(c, t)}
            IN /\ \A k, l \in DOMAIN r.evaluated :
                      k < l => Rank(r.evaluated[k]) < Rank(r.evaluated[l])
               /\ r.passed <=> failing = {}
               /\ failing # {} =>
                     LET first == CHOOSE c \in failing :
                                      \A d \in failing : Rank(c) <= Rank(d)
                     IN /\ r.reason \in Reasons(first)
                        /\ \A k \in DOMAIN r.evaluated :
                              Rank(r.evaluated[k]) <= Rank(first)

\* a request was rejected at the membership check although the game account
\* also carries the risk tag, the risk check being on
C15_Witness ==
    \E i \in DOMAIN task :
        /\ task[i].pc = "done"
        /\ task[i].result.reason = "reject_no_group"
        /\ task[i].policy.check_troll = "true"
        /\ task[i].policy.troll
        /\ task[i].result.evaluated = <<"conflict", "membership">>

\* C16 as stated: a request whose comment names no game account is rejected
\* at once only if auto-reject is enabled for the group and the verification
\* mode of the group is not disabled.
C16_UnresolvedRejectedOnlyOutsideDisabled ==
    [][\A i \in JoinTasks :
          (pga_parse(i) /\ revision = "current" /\ task'[i].result = "reject")
              => task[i].auto_reject /\ task[i].mode # "disabled"]_vars

\* C16, amended: a request whose comment names no game account is rejected at
\* once only if auto-reject is enabled for the group and the request is an
\* application (sub-type add), whatever the verification mode, disabled
\* included; and every such application is rejected.
C16_UnresolvedRejectedOnlyOnAutoReject ==
    [][\A i \in JoinTasks :
          /\ (pga_parse(i) /\ revision = "current" /\ task'[i].result = "reject")
                => task[i].auto_reject /\ task[i].sub_type = "add"
          /\ (/\ task[i].pc = "parse" /\ Unresolved(i)
              /\ UNCHANGED <<storeVars, now, reply, ret, nops, revision, handled_flags,
                             pending_bindings>>
              /\ revision = "current" /\ task[i].auto_reject
              /\ task[i].sub_type = "add")
                => task'[i].result = "reject"]_vars

\* an application with an unreadable comment was rejected in disabled mode
C16_Witness ==
    /\ revision = "current"
    /\ \E i \in DOMAIN task :
          /\ task[i].pc = "done"
          /\ task[i].result = "reject"
          /\ task[i].vrc = ""
          /\ task[i].mode = "disabled"
          /\ task[i].auto_reject
          /\ task[i].sub_type = "add"

\* C21 as stated: a join request the handler takes up, from an account that
\* holds a Binding, is approved, and the Pending Join Cache then maps the
\* account to its bound game account.
C21_BoundRequestApprovedAndCached ==
    \A i \in JoinTasks :
        (/\ task[i].pc = "done"
         /\ task[i].result \notin {"ignored", "duplicate", "raised"}
         /\ get_binding(global_bindings, task[i].user_id) # {})
            => /\ task[i].result = "approve"
               /\ \E e \in pending_bindings, r \in get_binding(global_bindings, task[i].user_id) :
                     e.qq_id = task[i].user_id /\ e.id = r.vrc_user_id

\* C21, amended: a join request the handler takes up, from an account that
\* holds a Binding, is approved.  The Pending Join Cache then maps the account
\* to its bound game account, except in the current revision when the account
\* also has a Global Verification: the request is then approved before the
\* Binding is looked up, and the cache gets no entry.
C21_BoundRequestApproved ==
    \A i \in JoinTasks :
        (/\ task[i].pc = "done"
         /\ task[i].result \notin {"ignored", "duplicate", "raised"}
         /\ get_binding(global_bindings, task[i].user_id) # {})
            => /\ task[i].result = "approve"
               /\ IF /\ revision = "current"
                     /\ get_global_verification(global_verifications, task[i].user_id) # {}
                  THEN \A e \in pending_bindings : e.qq_id # task[i].user_id
                  ELSE /\ \E e \in pending_bindings : e.qq_id = task[i].user_id
                       /\ \A e \in pending_bindings :
                             e.qq_id = task[i].user_id
                                => \E r \in get_binding(global_bindings, task[i].user_id) :
                                      e.id = r.vrc_user_id

\* the request of a bound account without Global Verification was approved on
\* its Binding, whatever its comment, and the bound game account is cached
C21_Witness ==
    \E i \in DOMAIN task :
        /\ task[i].pc = "done"
        /\ task[i].result = "approve"
        /\ task[i].vrc = ""
        /\ get_global_verification(global_verifications, task[i].user_id) = {}
        /\ \E r \in get_binding(global_bindings, task[i].user_id),
              e \in pending_bindings :
                 e.qq_id = task[i].user_id /\ e.id = r.vrc_user_id

----------------------------------------------------------------------------
(* Verify attempt claims, checked under SpecAttempt *)

\* the game account a successful verify of q binds: that of its Global
\* Verification when it has one, else that of its Verification Record
VerifyTarget(q) ==
    LET gv == get_global_verification(global_verifications, q)
    IN IF gv # {} THEN (CHOOSE r \in gv : TRUE).vrc_user_id
       ELSE (CHOOSE r \in get_verification(verifications, q) : TRUE).vrc_user_id

\* what a successful verify of q leaves: a Binding of kind verified, the
\* Global Verification (the one there was, or a new one for the game account
\* of the record), and no Verification Record
Verified(q) ==
    /\ \E r \in get_binding(global_bindings', q) :
          r.bind_type = "verified" /\ r.vrc_user_id = VerifyTarget(q)
    /\ global_verifications' =
          IF get_global_verification(global_verifications, q) # {}
          THEN global_verifications
          ELSE global_verifications
                  \cup {GlobalVerificationRow(
                           q, (CHOOSE r \in get_verification(verifications, q) :
                                  TRUE).vrc_user_id, "verified")}
    /\ get_verification(verifications', q) = {}

C18_VerifyFailureFrame ==
    [][\A q \in QQs, g \in Groups \cup {None}, status \in Statuses, settings \in BOOLEAN :
          (/\ Asks(q)
           /\ ~Contains(status, StoredCode(verifications, q))
           /\ _cmd_verify_told(q, g, TRUE, status, settings))
              => /\ UNCHANGED storeVars
                 /\ StoredCode(verifications', q) = StoredCode(verifications, q)
                 /\ get_binding(global_bindings', q) = {}
                 /\ reply'.kind = "verification_failed"
                 /\ reply'.code = StoredCode(verifications, q)
                 /\ reply'.detail = IF status = "" THEN "(empty)" ELSE status]_vars

\* a verify attempt failed on a status that carries another code
C18_Witness ==
    /\ reply.cmd = "verify"
    /\ reply.kind = "verification_failed"
    /\ reply.code = "222222"
    /\ reply.detail = "my code 111111"
    /\ StoredCode(verifications, reply.qq_id) = "222222"
    /\ get_binding(global_bindings, reply.qq_id) = {}

----------------------------------------------------------------------------
(* Strict mode claim, checked under SpecStrict *)

\* C20: in strict mode, an account let in on the strength of its binding in
\* the group, and told on joining that it must verify in time, is in the end
\* verified or removed from the group.
C20_StrictUnverifiedRemoved ==
    \A u \in QQs :
        (/\ reply.cmd = "joined" /\ reply.qq_id = u
         /\ reply.detail = "kick_reminder"
         /\ \E g \in Groups : get_group_member_binding(group_bindings, g, u) # {})
            ~> (\/ Kicked
                \/ \E r \in get_binding(global_bindings, u) : r.bind_type = "verified")
----------------------------------------------------------------------------
(* Administrator command claim, checked under SpecAdmin *)

\* C22: no command of a group's administrators, bind or unbind, whatever its
\* arguments and its outcome, removes or changes a row of the Global
\* Verification table.
C22_AdminCommandsKeepGlobalVerification ==
    [][\A g \in Groups, q \in QQs :
          /\ \A member \in BOOLEAN, admin \in BOOLEAN :
                _cmd_unbind(g, q, member, admin)
                    => global_verifications' = global_verifications
          /\ \A v \in VrcIds, member \in BOOLEAN, found \in BOOLEAN :
                _cmd_bind(g, q, v, member, found)
                    => global_verifications' = global_verifications]_vars

\* a group administrator has just unbound a globally verified account from
\* the group: its group row is gone, its Global Verification is still there
C22_Witness ==
    /\ reply.cmd = "unbind" /\ reply.kind = "unbind_success"
    /\ get_global_verification(global_verifications, reply.qq_id) # {}
    /\ get_binding(global_bindings, reply.qq_id) # {}
    /\ \A r \in group_bindings : r.qq_id # reply.qq_id
----------------------------------------------------------------------------
(* Event Router claims, checked under SpecRouter *)

\* the calls of handlers made for frame i
HandlerCallsFor(i) ==
    {k \in DOMAIN outbox : outbox[k].flag = i /\ outbox[k].action \in HandlerCalls}

\* C23: every inbound frame that carries a correlation token (echo) is handed
\* to the response path of the chat client, where the waiters of Call are
\* resolved, and is never passed to a message, notice, request or meta-event
\* handler.
C23_EchoFramesReachWaiters ==
    \A i \in DOMAIN task :
        (task[i].pc = "done" /\ task[i].frame.echo)
            => /\ HandlerCallsFor(i) = {}
               /\ \E k \in DOMAIN outbox :
                     outbox[k] = [action |-> "handle_response", flag |-> i]

\* a frame has no category dispatch knows
UnknownCategory(f) == ~f.echo /\ SettledPostType(f) \notin DOMAIN _handlers

\* C24: the dispatch of a frame, whatever the frame and whatever its handler
\* does, returns to its caller without an exception, so that no dispatch ends
\* the delivery of later frames; a frame of unknown category invokes no
\* handler, and a frame of a registered category invokes its handler once.
C24_DispatchNeverRaises ==
    \A i \in DOMAIN task :
        /\ task[i].result # "raised"
        /\ UnknownCategory(task[i].frame) => HandlerCallsFor(i) = {}
        /\ (task[i].pc = "done" /\ ~task[i].frame.echo /\ ~UnknownCategory(task[i].frame))
              => \E k \in HandlerCallsFor(i) :
                    /\ outbox[k].action = _handlers[SettledPostType(task[i].frame)]
                    /\ HandlerCallsFor(i) = {k}

\* the handler of the first frame raised, which was logged; the second frame,
\* of unknown category, was then dropped with a diagnostic, and both
\* dispatches returned
C24_Witness ==
    /\ Len(task) >= 2
    /\ task[1].result = "returned" /\ task[2].result = "returned"
    /\ UnknownCategory(task[2].frame) /\ task[2].frame.post_type = "other"
    /\ \E k, l \in DOMAIN outbox :
          /\ k < l
          /\ outbox[k] = [action |-> "logger.error", flag |-> 1]
          /\ outbox[l] = [action |-> "logger.debug", flag |-> 2]
    /\ HandlerCallsFor(1) # {}
----------------------------------------------------------------------------
(* Scheduler claims, checked under SpecSched *)

\* no loop task ends in this step
NoLoopEnds == \A l \in SchedLoops : Done(task'[l]) <=> Done(task[l])

\* C25: a heartbeat ping that times out or raises, a round of the expiry sweep
\* that raises, and a cleanup job that raises each leave every loop running;
\* after a cleanup job that raises the next registered job is run, and a
\* cleanup cycle ends only when every registered job has been run.
C25_LoopFailuresTolerated ==
    [][/\ (\E o \in {"TimeoutError", "Exception"} : monitor_ping(o))
             => NoLoopEnds /\ task'.monitor.pc = "sleep"
       /\ expiry_thread("raised") => NoLoopEnds /\ task'.expiry.pc = "sleep"
       /\ cleanup_job("raised")
             => /\ NoLoopEnds
                /\ task'.cleanup.pc =
                      IF Len(task.cleanup.ran) + 1 < task.scheduler.jobs
                      THEN "job" ELSE "sleep"
       /\ (task.cleanup.pc = "job" /\ task'.cleanup.pc \in {"sleep", "finished"})
             => Len(task'.cleanup.ran) = task.scheduler.jobs]_vars

\* a cleanup cycle has ended in which the first job raised and the second
\* ran; the last ping timed out; the three loops are waiting for their next
\* iteration
C25_Witness ==
    /\ "cleanup" \in DOMAIN task
    /\ task.cleanup.ran = <<"raised", "returned">>
    /\ task.cleanup.pc = "sleep"
    /\ task.monitor.logged = "TimeoutError" /\ task.monitor.pc = "sleep"
    /\ task.expiry.logged = "error" /\ task.expiry.pc = "sleep"

----------------------------------------------------------------------------
(* The expiry sweep, checked under SpecSched *)

\* a round of verification_expiry_task whose call has returned its count
SweepReturned ==
    /\ task.expiry.pc = "thread"
    /\ task'.expiry.pc = "sleep"
    /\ task'.expiry.logged = ""

\* the record's age in seconds is past the configured TTL
Outdated(r, t) == Seconds(t) - r.created_at > code_expiry

\* C27: a round of the Scheduler's expiry sweep flags expired every unexpired
\* Verification Record whose age exceeds the configured TTL, and flags no
\* record younger than the TTL.
C27_SweepFlagsOutdatedRecords ==
    [][SweepReturned =>
          \A r \in verifications :
             \E r2 \in verifications' :
                /\ r2.qq_id = r.qq_id
                /\ (~r.is_expired /\ Outdated(r, now)) => r2.is_expired
                /\ (~r.is_expired /\ ~Outdated(r, now)) => ~r2.is_expired]_vars

----------------------------------------------------------------------------
(* The expiry update and the reads beside it, checked under SpecVerify *)

\* C28: whenever a Verification Record is read while the expiry sweep runs
\* beside the handlers, the record is whole: it has the expired flag exactly
\* when its code is the placeholder, never the flag with the original code
\* nor the placeholder with the flag unset.
C28_NoPartiallyExpiredRecord ==
    \A r \in verifications : r.is_expired <=> r.code = ExpiredCode

\* the sweep has flagged a record, and a verify command that came after it
\* has read the record with its flag and the placeholder code
C28_Witness ==
    /\ backend = "mysql"
    /\ reply.cmd = "verify" /\ reply.kind = "verification_expired"
    /\ reply.stale = ExpiredCode
    /\ \E r \in get_verification(verifications, reply.qq_id) :
          r.is_expired /\ r.code = ExpiredCode

----------------------------------------------------------------------------
(* The Gateway Session: QQWebSocketManager.connect and disconnect, as
   BotManager.start and stop call them.  task is a record: config holds what
   the constructor was given, bot which of run and start the Bot class has,
   ws the session, manager the position of BotManager.  outbox is the log of
   the calls made. *)

\* the largest ws_max_retries configured
MaxRetries == 2

\* ws_initial_delay and ws_max_delay, in seconds
InitialDelays == {1, 2}
MaxDelays == {2, 5}

\* QQWebSocketManager.__init__: max_retries, initial_delay, max_delay
WsConfigs ==
    [max_retries : 0 .. MaxRetries, initial_delay : InitialDelays, max_delay : MaxDelays]

\* hasattr(self.bot, 'run'), hasattr(self.bot, 'start'), or neither (the
\* stand-in class when ncatbot is not installed)
BotKinds == {"run", "start", "none"}

\* what the gateway does with an attempt: it accepts the connection (which
\* ends later), it cannot be reached, or it answers that the token is invalid
GatewayAnswers == {"accepted", "unreachable", "invalid_token"}

\* the manager after __init__: self.ws is set to None in the current
\* revision and is not an attribute in the legacy one
GatewayIdle(cfg, kind, rev) ==
    [config |-> cfg,
     bot |-> kind,
     ws |-> [pc |-> "idle", attempts |-> 0, answer |-> "",
             ws |-> IF rev = "current" THEN "None" ELSE "missing"],
     manager |-> [pc |-> "idle"]]

\* BotManager.start up to asyncio.gather(self.ws_manager.connect(), ...): the
\* VRChat login check returns or raises; when it raises no connection is made
manager_start(auth) ==
    /\ task.manager.pc = "idle"
    /\ task' = IF auth = "ok"
               THEN [task EXCEPT !.manager.pc = "gather", !.ws.pc = "created"]
               ELSE [task EXCEPT !.manager.pc = "stopping"]
    /\ outbox' = IF auth = "ok" \/ revision = "legacy" THEN Send(outbox, "logger.info", "start")
                 ELSE Send(Send(outbox, "logger.info", "start"), "logger.critical", "start")
    /\ UNCHANGED <<storeVars, now, reply, ret, nops, revision, handled_flags,
                   pending_bindings>>

\* connect up to await self.bot.run() or self.bot.start(): one attempt is
\* begun; without either method nothing is attempted and connect returns
connect_enter ==
    /\ task.ws.pc = "created"
    /\ IF task.bot = "none"
       THEN /\ task' = [task EXCEPT !.ws.pc = "returned",
                                    !.ws.ws = IF revision = "current" THEN "MockWS" ELSE @]
            /\ outbox' = Send(Send(outbox, "logger.info", "connect"), "logger.info", "mock")
       ELSE /\ task' = [task EXCEPT !.ws.pc = "running",
                                    !.ws.attempts = @ + 1,
                                    !.ws.ws = IF revision = "current" THEN "bot" ELSE @]
            /\ outbox' = Send(Send(outbox, "logger.info", "connect"),
                              IF task.bot = "run" THEN "bot.run" ELSE "bot.start", "")
    /\ UNCHANGED <<storeVars, now, reply, ret, nops, revision, handled_flags,
                   pending_bindings>>

\* a connect that begins again after an attempt that raised
bot_run_Retry(answer, outcome) ==
    /\ task.ws.pc = "running"
    /\ task' = [task EXCEPT !.ws.pc = IF outcome = "raised" THEN "created" ELSE outcome,
                            !.ws.answer = answer]
    /\ outbox' = IF outcome = "raised" THEN Send(outbox, "logger.error", answer) ELSE outbox
    /\ UNCHANGED <<storeVars, now, reply, ret, nops, revision, handled_flags,
                   pending_bindings>>

\* await self.bot.run() ends: it returns, and connect returns; or it raises,
\* and connect logs the error and raises it again.  None of max_retries,
\* initial_delay and max_delay is read, and nothing is awaited in between.
bot_run(answer, outcome) ==
    /\ task.ws.pc = "running"
    /\ task' = [task EXCEPT !.ws.pc = outcome, !.ws.answer = answer]
    /\ outbox' = IF outcome = "raised" THEN Send(outbox, "logger.error", answer) ELSE outbox
    /\ UNCHANGED <<storeVars, now, reply, ret, nops, revision, handled_flags,
                   pending_bindings>>

\* the gather raises what connect raised: BotManager.start of the current
\* revision logs it and calls stop; in the legacy revision it reaches main,
\* whose finally calls stop
manager_fail ==
    /\ task.manager.pc = "gather"
    /\ task.ws.pc = "raised"
    /\ task' = [task EXCEPT !.manager.pc = "stopping"]
    /\ outbox' = IF revision = "current" THEN Send(outbox, "logger.critical", "start")
                 ELSE outbox
    /\ UNCHANGED <<storeVars, now, reply, ret, nops, revision, handled_flags,
                   pending_bindings>>

\* the process is interrupted while start waits in the gather: a connect
\* that has not ended is cancelled, and main's finally calls stop
manager_interrupt ==
    /\ task.manager.pc = "gather"
    /\ task.ws.pc # "raised"
    /\ task' = [task EXCEPT !.manager.pc = "stopping",
                            !.ws.pc = IF @ \in {"created", "running"} THEN "cancelled" ELSE @]
    /\ UNCHANGED <<storeVars, now, reply, ret, nops, revision, handled_flags,
                   pending_bindings, outbox>>

\* BotManager.stop: (current: scheduler.stop, then) ws_manager.disconnect,
\* which closes the bot and, in the current revision, clears self.ws
manager_stop ==
    /\ task.manager.pc = "stopping"
    /\ task' = [task EXCEPT !.manager.pc = "stopped",
                            !.ws.ws = IF revision = "current" THEN "None" ELSE @]
    /\ outbox' = Send(IF revision = "current" THEN Send(outbox, "scheduler.stop", "")
                      ELSE outbox,
                      "bot.close", "")
    /\ UNCHANGED <<storeVars, now, reply, ret, nops, revision, handled_flags,
                   pending_bindings>>

InitGateway ==
    /\ backend = "sqlite"
    /\ global_bindings = {}
    /\ group_bindings = {}
    /\ global_verifications = {}
    /\ verifications = {}
    /\ revision \in Revisions
    /\ task \in {GatewayIdle(cfg, kind, revision) : cfg \in WsConfigs, kind \in BotKinds}
    /\ handled_flags = {}
    /\ pending_bindings = {}
    /\ outbox = <<>>
    /\ now = 0
    /\ reply = NoReply
    /\ ret = NoRet
    /\ nops = 0

ManagerStart == \E auth \in {"ok", "raised"} : manager_start(auth)
ConnectEnter == connect_enter
BotRun == \E answer \in GatewayAnswers, outcome \in {"returned", "raised"} : bot_run(answer, outcome)
ManagerFail == manager_fail
ManagerInterrupt == manager_interrupt
ManagerStop == manager_stop

NextGateway ==
    \/ ManagerStart
    \/ ConnectEnter
    \/ BotRun
    \/ ManagerFail
    \/ ManagerInterrupt
    \/ ManagerStop

SpecGateway == InitGateway /\ [][NextGateway]_vars

----------------------------------------------------------------------------
(* Gateway Session claims, checked under SpecGateway *)

\* C29: the waits between the session's connection attempts follow
\* delay = min(initial_delay * 2^retries, max_delay): each attempt that fails
\* while retries are left is followed by a wait, the k-th wait since the last
\* successful connection lasts min(initial_delay * 2^(k-1), max_delay), so
\* the waits never decrease up to max_delay and start again at initial_delay
\* after a success.
C29_ReconnectDelaysBackOff ==
    LET waits == SelectSeq(outbox, LAMBDA c : c.action = "asyncio.sleep")
        failed == Len(SelectSeq(outbox, LAMBDA c : c.action = "logger.error"))
        owed == IF failed < task.config.max_retries THEN failed
                ELSE task.config.max_retries
        delay(retries) ==
            IF task.config.initial_delay * 2^retries < task.config.max_delay
            THEN task.config.initial_delay * 2^retries
            ELSE task.config.max_delay
    IN /\ Len(waits) = owed
       /\ \A k \in 1 .. Len(waits) : waits[k].flag = delay(k - 1)

\* C30: once the gateway has answered an attempt with the invalid-token
\* response, the session is at its end and stays there: no connection
\* attempt is made afterwards.
C30_InvalidTokenEndsSession ==
    /\ [](task.ws.answer = "invalid_token" => task.ws.pc \in {"returned", "raised"})
    /\ [][task.ws.answer = "invalid_token"
             => task'.ws.attempts = task.ws.attempts /\ task'.ws.pc = task.ws.pc]_vars

\* the one attempt of a session configured with retries was answered with
\* the invalid-token response and raised; the manager has stopped
C30_Witness ==
    /\ task.ws.answer = "invalid_token"
    /\ task.ws.pc = "raised"
    /\ task.ws.attempts = 1
    /\ task.config.max_retries > 0
    /\ task.manager.pc = "stopped"

----------------------------------------------------------------------------
(* The calls of QQClient.  task is a function from call numbers to calls:
   the method called, whether the Bot object has the method, the call's
   position, the tick at which the Bot's coroutine was awaited, and how the
   call ended.  outbox is the log of what the calls did. *)

\* calls in one run
MaxCalls == 2

\* the wait after which a call is to have ended, in seconds
CallTimeout == 2

\* the methods of QQClient whose except clause raises again; the others
\* return None or []
Reraising == {"send_group_msg", "send_private_msg", "set_group_card"}

\* a call of a QQClient method that has not begun
ClientCall(m, has) ==
    [method |-> m, hasattr |-> has, pc |-> "called", started |-> 0, result |-> "none"]

\* a QQClient method up to its await: without the Bot method it logs a
\* warning and returns (None, [] or a made-up record); with it, it awaits the
\* Bot's coroutine, and no wait_for bounds the await
client_enter(i) ==
    /\ task[i].pc = "called"
    /\ IF task[i].hasattr
       THEN /\ task' = [task EXCEPT ![i].pc = "awaiting", ![i].started = now]
            /\ outbox' = Send(outbox, "bot", task[i].method)
       ELSE /\ task' = [task EXCEPT ![i].pc = "done",
                                    ![i].result =
                                       IF task[i].method \in Reraising THEN "None"
                                       ELSE IF task[i].method = "get_group_member_list"
                                       THEN "[]" ELSE "default"]
            /\ outbox' = Send(outbox, "logger.warning", task[i].method)
    /\ UNCHANGED <<storeVars, now, reply, ret, nops, revision, handled_flags,
                   pending_bindings>>

\* the Bot's coroutine ends: with a value, which the method adapts and
\* returns (None for the sending methods), or with an exception, which the
\* sending methods log and raise again and the reading methods turn into
\* None or []
client_answer(i, outcome) ==
    /\ task[i].pc = "awaiting"
    /\ IF outcome = "raised"
       THEN /\ task' = [task EXCEPT ![i].pc = "done",
                                    ![i].result =
                                       IF task[i].method \in Reraising THEN "raised"
                                       ELSE IF task[i].method = "get_group_member_list"
                                       THEN "[]" ELSE "None"]
            /\ outbox' = Send(outbox, "logger.error", task[i].method)
       ELSE /\ task' = [task EXCEPT ![i].pc = "done",
                                    ![i].result =
                                       IF task[i].method \in Reraising THEN "None"
                                       ELSE "response"]
            /\ outbox' = IF task[i].method \in Reraising
                         THEN Send(outbox, "logger.debug", task[i].method) ELSE outbox
    /\ UNCHANGED <<storeVars, now, reply, ret, nops, revision, handled_flags,
                   pending_bindings>>

InitClient ==
    /\ backend = "sqlite"
    /\ global_bindings = {}
    /\ group_bindings = {}
    /\ global_verifications = {}
    /\ verifications = {}
    /\ revision = "legacy"
    /\ task \in [1 .. MaxCalls ->
                    {ClientCall(m, has) : m \in QQClientMethods, has \in BOOLEAN}]
    /\ handled_flags = {}
    /\ pending_bindings = {}
    /\ outbox = <<>>
    /\ now = 0
    /\ reply = NoReply
    /\ ret = NoRet
    /\ nops = 0

ClientEnter == \E i \in DOMAIN task : client_enter(i)
ClientAnswer == \E i \in DOMAIN task, outcome \in {"value", "raised"} : client_answer(i, outcome)

NextClient == Tick \/ ClientEnter \/ ClientAnswer

SpecClient == InitClient /\ [][NextClient]_vars

----------------------------------------------------------------------------
(* QQClient claim, checked under SpecClient *)

\* C31: every call returns, with the response or, once the timeout has
\* elapsed, with the no-result value: no call ends by raising, and no call is
\* still waiting when the timeout has elapsed.
C31_EveryCallReturns ==
    \A i \in DOMAIN task :
       /\ task[i].pc = "done" => task[i].result # "raised"
       /\ task[i].pc = "awaiting"
             => now - task[i].started <= CallTimeout * TicksPerSecond

----------------------------------------------------------------------------
(* safe_db_operation around one Binding Store method.  task is a record:
   the method, the attempt of the retry loop, the position, the failure the
   last run of the method met, and what the handler got back. *)

\* safe_db_operation: max_retries
max_retries == 3

\* the store methods the handlers call through safe_db_operation
SafeOps ==
    {"bind_user", "unbind_user_from_group", "unbind_user_globally", "add_verification",
     "get_qq_by_vrc_id", "get_binding", "get_all_bindings", "get_verification"}

\* what a run of a method can meet: nothing, a lost connection (the error
\* text has one of the words safe_db_operation retries on), a constraint
\* violation (it has none of them)
Failures == {"none", "connection", "constraint"}

\* does the method's own try/except take the failure: the writing methods
\* do (MySQL: but for _ensure_connection, called before the try), the
\* reading methods do not (but for MySQL's get_verification)
Catches(be, op, fail, where) ==
    IF op \in {"bind_user", "unbind_user_from_group", "unbind_user_globally",
               "add_verification"}
    THEN be = "sqlite" \/ where = "execute"
    ELSE be = "mysql" /\ op = "get_verification"

\* a wrapper whose last attempt lets the exception through
safe_db_operation_thread_Raise(fail, where) ==
    /\ task.pc = "thread"
    /\ task' =
          IF fail = "none" THEN [task EXCEPT !.pc = "done", !.result = "value", !.fail = fail]
          ELSE IF Catches(backend, task.op, fail, where)
          THEN [task EXCEPT !.pc = "done", !.result = "False", !.fail = fail]
          ELSE IF task.attempt < max_retries - 1 /\ fail = "connection"
          THEN [task EXCEPT !.pc = "sleep", !.fail = fail]
          ELSE [task EXCEPT !.pc = "done", !.result = "raised", !.fail = fail]
    /\ UNCHANGED <<storeVars, now, reply, ret, nops, revision, handled_flags,
                   pending_bindings, outbox>>

\* await asyncio.to_thread(db_func, ...) inside the try of the retry loop:
\* the method returns its value, or returns False from its own except
\* clause, or raises; what it raises is retried after a sleep when the text
\* names the connection and attempts are left, and ends in return None
\* otherwise
safe_db_operation_thread(fail, where) ==
    /\ task.pc = "thread"
    /\ task' =
          IF fail = "none" THEN [task EXCEPT !.pc = "done", !.result = "value", !.fail = fail]
          ELSE IF Catches(backend, task.op, fail, where)
          THEN [task EXCEPT !.pc = "done", !.result = "False", !.fail = fail]
          ELSE IF task.attempt < max_retries - 1 /\ fail = "connection"
          THEN [task EXCEPT !.pc = "sleep", !.fail = fail]
          ELSE [task EXCEPT !.pc = "done", !.result = "None", !.fail = fail]
    /\ UNCHANGED <<storeVars, now, reply, ret, nops, revision, handled_flags,
                   pending_bindings, outbox>>

\* the handler awaits safe_db_operation(self.bot.db.<method>, ...), and the
\* loop goes round after asyncio.sleep(delay)
safe_db_operation_loop ==
    /\ task.pc \in {"called", "sleep"}
    /\ task' = [task EXCEPT !.pc = "thread",
                            !.attempt = IF task.pc = "sleep" THEN @ + 1 ELSE @]
    /\ UNCHANGED <<storeVars, now, reply, ret, nops, revision, handled_flags,
                   pending_bindings, outbox>>

InitSafe ==
    /\ EmptyStore
    /\ revision = "current"
    /\ task \in {[op |-> op, attempt |-> 0, pc |-> "called", fail |-> "none",
                  result |-> "none"] : op \in SafeOps}
    /\ handled_flags = {}
    /\ pending_bindings = {}
    /\ outbox = <<>>
    /\ now = 0
    /\ reply = NoReply
    /\ ret = NoRet
    /\ nops = 0

SafeThread ==
    \E fail \in Failures, where \in {"ensure", "execute"} :
        /\ where = "ensure" => backend = "mysql" /\ fail = "connection"
        /\ safe_db_operation_thread(fail, where)
SafeLoop == safe_db_operation_loop

NextSafe == SafeThread \/ SafeLoop

SpecSafe == InitSafe /\ [][NextSafe]_vars

----------------------------------------------------------------------------
(* Store failure claim, checked under SpecSafe *)

----------------------------------------------------------------------------
(* bind_user with the bind_time column.  task is a record: global_time and
   group_time hold the bind_time of each row of the global and the group
   tables, in seconds; last holds the arguments of the call before, when it
   was a bind. *)

\* bind calls in one run
MaxBinds == 3

BindTime(gt, q) == {r \in gt : r.qq_id = q}

\* bind_time of the global rows after bind_user.  SQLite: INSERT OR REPLACE
\* deletes the colliding rows and inserts a row whose bind_time takes its
\* default CURRENT_TIMESTAMP.  MySQL: the UPDATE of an existing row leaves
\* bind_time, the INSERT of a new one takes the default.
GlobalBindTime(be, gb, gt, q, v, t) ==
    IF be = "sqlite"
    THEN {r \in gt : \E x \in gb : x.qq_id = r.qq_id /\ x.qq_id # q /\ x.vrc_user_id # v}
            \cup {[qq_id |-> q, bind_time |-> Seconds(t)]}
    ELSE IF MysqlDuplicate(gb, q, v) \/ BindTime(gt, q) # {} THEN gt
    ELSE gt \cup {[qq_id |-> q, bind_time |-> Seconds(t)]}

\* bind_time of the group rows after bind_user: INSERT OR REPLACE writes a
\* new one, ON DUPLICATE KEY UPDATE leaves the one there is
GroupBindTime(be, gb, grt, q, v, g, t) ==
    IF g = None \/ ~BindOk(be, gb, q, v) THEN grt
    ELSE IF be = "sqlite"
    THEN {r \in grt : ~(r.group_id = g /\ r.qq_id = q)}
            \cup {[group_id |-> g, qq_id |-> q, bind_time |-> Seconds(t)]}
    ELSE IF \E r \in grt : r.group_id = g /\ r.qq_id = q THEN grt
    ELSE grt \cup {[group_id |-> g, qq_id |-> q, bind_time |-> Seconds(t)]}

\* bind_user, with the bind_time of the rows it writes
bind_user_at(q, v, t, g) ==
    /\ nops < MaxBinds
    /\ global_bindings' = BindGlobal(backend, global_bindings, q, v, t, g)
    /\ group_bindings' = BindGroup(backend, global_bindings, group_bindings, q, v, g)
    /\ task' = [global_time |->
                   GlobalBindTime(backend, global_bindings, task.global_time, q, v, now),
                group_time |->
                   GroupBindTime(backend, global_bindings, task.group_time, q, v, g, now),
                last |-> <<q, v, t, g>>]
    /\ ret' = [op |-> "bind_user", qq_id |-> q,
               ok |-> BindOk(backend, global_bindings, q, v),
               deleted |-> Cardinality({r \in global_bindings \ global_bindings' : r.qq_id # q})]
    /\ nops' = nops + 1
    /\ UNCHANGED <<backend, global_verifications, verifications, now, reply, revision,
                   handled_flags, pending_bindings, outbox>>

InitRetry ==
    /\ EmptyStore
    /\ revision = "current"
    /\ task = [global_time |-> {}, group_time |-> {}, last |-> <<>>]
    /\ handled_flags = {}
    /\ pending_bindings = {}
    /\ outbox = <<>>
    /\ now = 0
    /\ reply = NoReply
    /\ ret = NoRet
    /\ nops = 0

BindAt == \E q \in QQs, v \in VrcIds, t \in BindTypes, g \in Groups \cup {None} :
              bind_user_at(q, v, t, g)

NextRetry == Tick \/ BindAt

SpecRetry == InitRetry /\ [][NextRetry]_vars

----------------------------------------------------------------------------
(* Retry claim, checked under SpecRetry *)

\* C33: a Bind call that repeats the call before it leaves the store as
\* that call left it, every column of every row, and returns what it
\* returned.
C33_BindTwiceIsBindOnce ==
    [][\A q \in QQs, v \in VrcIds, t \in BindTypes, g \in Groups \cup {None} :
          (task.last = <<q, v, t, g>> /\ bind_user_at(q, v, t, g))
             => /\ global_bindings' = global_bindings
                /\ group_bindings' = group_bindings
                /\ task'.global_time = task.global_time
                /\ task'.group_time = task.group_time
                /\ ret'.ok = ret.ok]_vars

----------------------------------------------------------------------------
(* The two backends given the same calls.  global_bindings and
   group_bindings are the tables of the SQLite store and ret the result of
   its last call; task holds the tables of the MySQL store and the result of
   its last call. *)

\* bind_user on both stores
bind_user_both(q, v, t, g) ==
    /\ nops < MaxOps
    /\ global_bindings' = BindGlobal("sqlite", global_bindings, q, v, t, g)
    /\ group_bindings' = BindGroup("sqlite", global_bindings, group_bindings, q, v, g)
    /\ ret' = [op |-> "bind_user", qq_id |-> q,
               ok |-> BindOk("sqlite", global_bindings, q, v), deleted |-> 0]
    /\ task' = [global_bindings |-> BindGlobal("mysql", task.global_bindings, q, v, t, g),
                group_bindings |->
                   BindGroup("mysql", task.global_bindings, task.group_bindings, q, v, g),
                ok |-> BindOk("mysql", task.global_bindings, q, v)]
    /\ nops' = nops + 1
    /\ UNCHANGED <<backend, global_verifications, verifications, now, reply, revision,
                   handled_flags, pending_bindings, outbox>>

\* unbind_user_from_group on both stores
unbind_user_from_group_both(g, q) ==
    /\ nops < MaxOps
    /\ group_bindings' = DeleteGroupRow(group_bindings, g, q)
    /\ global_bindings' = ClearOrigin(global_bindings, g, q)
    /\ ret' = [op |-> "unbind_user_from_group", qq_id |-> q,
               ok |-> get_group_member_binding(group_bindings, g, q) # {}, deleted |-> 0]
    /\ task' = [global_bindings |-> ClearOrigin(task.global_bindings, g, q),
                group_bindings |-> DeleteGroupRow(task.group_bindings, g, q),
                ok |-> get_group_member_binding(task.group_bindings, g, q) # {}]
    /\ nops' = nops + 1
    /\ UNCHANGED <<backend, global_verifications, verifications, now, reply, revision,
                   handled_flags, pending_bindings, outbox>>

\* unbind_user_globally on both stores
unbind_user_globally_both(q) ==
    /\ nops < MaxOps
    /\ group_bindings' = SweepGroupRows(group_bindings, q)
    /\ global_bindings' = DeleteGlobalRow(global_bindings, q)
    /\ ret' = [op |-> "unbind_user_globally", qq_id |-> q, ok |-> TRUE, deleted |-> 0]
    /\ task' = [global_bindings |-> DeleteGlobalRow(task.global_bindings, q),
                group_bindings |-> SweepGroupRows(task.group_bindings, q),
                ok |-> TRUE]
    /\ nops' = nops + 1
    /\ UNCHANGED <<backend, global_verifications, verifications, now, reply, revision,
                   handled_flags, pending_bindings, outbox>>

InitTwin ==
    /\ backend = "sqlite"
    /\ global_bindings = {}
    /\ group_bindings = {}
    /\ global_verifications = {}
    /\ verifications = {}
    /\ revision = "current"
    /\ task = [global_bindings |-> {}, group_bindings |-> {}, ok |-> TRUE]
    /\ handled_flags = {}
    /\ pending_bindings = {}
    /\ outbox = <<>>
    /\ now = 0
    /\ reply = NoReply
    /\ ret = NoRet
    /\ nops = 0

BindBoth == \E q \in QQs, v \in VrcIds, t \in BindTypes, g \in Groups \cup {None} :
                bind_user_both(q, v, t, g)
UnbindFromGroupBoth == \E g \in Groups, q \in QQs : unbind_user_from_group_both(g, q)
UnbindGloballyBoth == \E q \in QQs : unbind_user_globally_both(q)

NextTwin == BindBoth \/ UnbindFromGroupBoth \/ UnbindGloballyBoth

SpecTwin == InitTwin /\ [][NextTwin]_vars

----------------------------------------------------------------------------
(* Backend claim, checked under SpecTwin *)

\* C34: given the same sequence of Bind, UnbindFromGroup and UnbindGlobally
\* calls, the SQLite and the MySQL store return the same results and hold
\* the same global and group-scoped binding rows.
C34_BackendsInterchangeable ==
    /\ global_bindings = task.global_bindings
    /\ group_bindings = task.group_bindings
    /\ ret.ok = task.ok

----------------------------------------------------------------------------
(* From the join request to the member-joined event: the requests of       *)
(* SpecJoin, each followed, once approved, by the member-joined event the   *)
(* approval causes, with waits in between.                                  *)

\* the member-joined event that follows the approval of request i
pga_joined(i) ==
    /\ task[i].pc = "done"
    /\ task[i].result = "approve"
    /\ _process_group_increase_run(task[i].group_id, task[i].user_id)
    /\ task' = [task EXCEPT ![i].pc = "joined"]
    /\ UNCHANGED nops

JoinMemberIncrease == \E i \in JoinTasks : pga_joined(i)

\* the clock moves on once, to one tick before the end of an entry's life
\* or to its end
EntryElapse ==
    /\ now = 0
    /\ now' \in {pending_ttl * TicksPerSecond - 1, pending_ttl * TicksPerSecond}
    /\ UNCHANGED <<storeVars, reply, ret, nops, handlerVars>>

NextEntry ==
    \/ NextJoin
    \/ EntryElapse
    \/ JoinMemberIncrease

\* a request to join group 10 from account 1 and one to join group 20, found
\* by a store that is empty or holds account 1's Binding
InitEntry ==
    /\ backend = "sqlite"
    /\ \E st \in {t \in JoinStores : t.gv = {} /\ \A r \in t.gb : r.qq_id = 1} :
          /\ global_bindings = st.gb
          /\ group_bindings = st.grp
          /\ global_verifications = st.gv
    /\ verifications = {}
    /\ revision \in Revisions
    /\ \E u2 \in QQs :
          task = <<JoinTask("flag_a", 1, 10, "add"), JoinTask("flag_b", u2, 20, "add")>>
    /\ handled_flags = {}
    /\ pending_bindings = {}
    /\ outbox = <<>>
    /\ now = 0
    /\ reply = NoReply
    /\ ret = NoRet
    /\ nops = 0

SpecEntry == InitEntry /\ [][NextEntry]_vars

\* request i was approved on a path that caches: not by the disabled mode and
\* not on a Global Verification
CachedApproval(i) ==
    /\ task[i].result = "approve"
    /\ get_global_verification(global_verifications, task[i].user_id) = {}
    /\ ~(revision = "current" /\ task[i].mode = "disabled")

\* C35 as stated: the member-joined event caused by an approval of a caching
\* path always finds the entry of the Pending Join Cache.
C35_ApprovedJoinFindsEntry ==
    [][\A i \in JoinTasks :
          (pga_joined(i) /\ CachedApproval(i))
              => _get_pending_binding_info(pending_bindings, task[i].user_id, now) # {}]_vars

\* C35, amended: in every join-request path that both caches and approves,
\* the approve is issued with the entry of the Pending Join Cache already
\* written, and the member-joined event caused by the approval finds an entry
\* when it is handled less than pending_ttl later and before any other
\* member-joined event of the same account.
C35_EntryWrittenBeforeApprove ==
    /\ [][\A i \in JoinTasks :
             (/\ task[i].pc \in {"reconnect", "strict", "policy"}
              /\ task'[i].result = "approve"
              /\ outbox' = Send(outbox, "approve", task[i].flag))
                 => \E e \in pending_bindings' :
                       e.qq_id = task[i].user_id /\ e.time = now]_vars
    /\ [][\A i \in JoinTasks :
             (/\ pga_joined(i)
              /\ CachedApproval(i)
              /\ now < pending_ttl * TicksPerSecond
              /\ \A j \in JoinTasks :
                    task[j].user_id = task[i].user_id => task[j].pc # "joined")
                 => _get_pending_binding_info(pending_bindings, task[i].user_id, now) # {}]_vars

\* an approved request was followed by its member-joined event, which found
\* the cached game account and sent the code
C35_Witness ==
    \E i \in DOMAIN task :
        /\ task[i].pc = "joined"
        /\ CachedApproval(i)
        /\ reply.cmd = "joined"
        /\ reply.kind = "verification_request"
        /\ reply.qq_id = task[i].user_id


----------------------------------------------------------------------------
(* The lookup of the Pending Join Cache, checked under SpecMember *)

\* C36: a lookup of the Pending Join Cache by the member-joined handler
\* consumes the entry, live or expired: afterwards the cache holds no entry
\* for the account, and a further member-joined event of the account that
\* finds the cache as the lookup left it starts no code challenge.
C36_LookupConsumesEntry ==
    [][\A g \in Groups, u \in QQs :
          (/\ get_global_verification(global_verifications, u) = {}
           /\ reply'.qq_id = u
           /\ _process_group_increase(g, u))
              => /\ \A p \in pending_bindings' : p.qq_id # u
                 /\ (/\ reply.cmd = "joined"
                      /\ reply.qq_id = u
                      /\ reply.kind # "auto_verified"
                      /\ \A p \in pending_bindings : p.qq_id # u)
                        => /\ reply'.kind # "verification_request"
                           /\ ~reply'.generated
                           /\ verifications' = verifications]_vars

\* a member-joined event started a code challenge, and a second one for the
\* same account found nothing cached and started none
C36_Witness ==
    /\ reply.cmd = "joined"
    /\ reply.kind \in {"welcome_reminder", "none"}
    /\ reply.detail = ""
    /\ get_verification(verifications, reply.qq_id) # {}
    /\ get_global_verification(global_verifications, reply.qq_id) = {}
    /\ \A p \in pending_bindings : p.qq_id # reply.qq_id


----------------------------------------------------------------------------
(* GroupHandler._initiate_new_verification step by step: the code is        *)
(* generated, add_verification is run through safe_db_operation, and the   *)
(* instruction is sent.                                                     *)

NoChallenge ==
    [pc |-> "idle", group_id |-> None, user_id |-> None, vrc |-> "", code |-> "",
     attempt |-> 0, result |-> "none"]

\* code = generate_verification_code()
inv_generate(g, q, v, c) ==
    /\ nops < MaxCmds
    /\ task.pc = "idle"
    /\ task' = [pc |-> "save", group_id |-> g, user_id |-> q, vrc |-> v, code |-> c,
                attempt |-> 0, result |-> "none"]
    /\ nops' = nops + 1
    /\ UNCHANGED <<storeVars, now, reply, ret, revision, handled_flags,
                   pending_bindings, outbox>>

\* await safe_db_operation(self.bot.db.add_verification, ...): one attempt,
\* which writes the record, or fails and is caught by the method (False), or
\* is retried by the wrapper, or ends the wrapper's attempts (None)
inv_save(fail, where) ==
    /\ task.pc = "save"
    /\ IF fail = "none"
       THEN /\ verifications' =
                  add_verification(verifications, task.user_id, task.vrc, task.code, now)
            /\ task' = [task EXCEPT !.pc = "send", !.result = "True"]
       ELSE /\ UNCHANGED verifications
            /\ task' =
                  IF Catches(backend, "add_verification", fail, where)
                  THEN [task EXCEPT !.pc = "send", !.result = "False"]
                  ELSE IF task.attempt < max_retries - 1 /\ fail = "connection"
                  THEN [task EXCEPT !.attempt = @ + 1]
                  ELSE [task EXCEPT !.pc = "send", !.result = "None"]
    /\ UNCHANGED <<backend, global_bindings, group_bindings, global_verifications,
                   now, reply, ret, nops, revision, handled_flags, pending_bindings,
                   outbox>>

\* await self.bot.qq_client.send_group_msg(group_id, verify_msg)
inv_send ==
    /\ task.pc = "send"
    /\ reply' = Reply("initiate", task.user_id, "verification_request", task.code, TRUE,
                      StoredCode(verifications, task.user_id))
    /\ task' = NoChallenge
    /\ UNCHANGED <<storeVars, now, ret, nops, revision, handled_flags,
                   pending_bindings, outbox>>

InitChallenge ==
    /\ backend \in Backends
    /\ global_bindings = {}
    /\ group_bindings = {}
    /\ global_verifications = {}
    /\ verifications = {}
    /\ revision = "current"
    /\ task = NoChallenge
    /\ handled_flags = {}
    /\ pending_bindings = {}
    /\ outbox = <<>>
    /\ now = 0
    /\ reply = NoReply
    /\ ret = NoRet
    /\ nops = 0

ChallengeGenerate ==
    \E g \in Groups, q \in QQs, v \in VrcIds, c \in Codes : inv_generate(g, q, v, c)

ChallengeSave ==
    \E fail \in Failures, where \in {"ensure", "execute"} :
        /\ where = "ensure" => backend = "mysql" /\ fail = "connection"
        /\ inv_save(fail, where)

ChallengeSend == inv_send

NextChallenge == Tick \/ ChallengeGenerate \/ ChallengeSave \/ ChallengeSend

SpecChallenge == InitChallenge /\ [][NextChallenge]_vars

\* C37: the instruction that carries a code is sent only after a Verification
\* Record holding that same code has been persisted: when the send is made,
\* the account's record in the store has the code of the message.
C37_InstructionAfterRecord ==
    [][(task.pc = "send" /\ inv_send)
          => \E r \in get_verification(verifications, task.user_id) :
                r.code = task.code]_vars


----------------------------------------------------------------------------
(* The verify attempt whose Bind is refused, checked under SpecAttempt *)

\* C38: when the Bind write fails during a verify attempt whose code matched,
\* the Verification Record is retained, so that the account still awaits
\* verification, and no Global Verification is written.
C38_FailedBindKeepsRecord ==
    [][\A q \in QQs, g \in Groups \cup {None}, status \in Statuses, settings \in BOOLEAN :
          (/\ Asks(q)
           /\ Contains(status, StoredCode(verifications, q))
           /\ _cmd_verify_told(q, g, TRUE, status, settings)
           /\ ~BindOk(backend, global_bindings, q, VerifyTarget(q)))
              => /\ get_verification(verifications', q) = get_verification(verifications, q)
                 /\ get_verification(verifications', q) # {}
                 /\ global_verifications' = global_verifications]_vars


----------------------------------------------------------------------------
(* Group rows against the global row, checked under Spec *)

\* C39: after any sequence of binds and unbinds, every group-scoped binding
\* row of a chat account names the game account of that account's global
\* Binding row, and a group-scoped row exists only while the account has a
\* global Binding row.
C39_GroupRowsFollowGlobalRow ==
    \A r \in group_bindings :
        \E b \in global_bindings :
            b.qq_id = r.qq_id /\ b.vrc_user_id = r.vrc_user_id


----------------------------------------------------------------------------
(* bind_user statement by statement on the one connection every thread      *)
(* shares.  The tables are what a statement of any thread reads on that     *)
(* connection; task.committed is what the database file holds.  SQLite     *)
(* commits at conn.commit(), which commits the statements of every thread; *)
(* MySQL runs with autocommit and commits at each statement.                *)

\* what is committed once a statement has run
AfterStatement(gb, grp) ==
    IF backend = "mysql" THEN [gb |-> gb, grp |-> grp] ELSE task.committed

\* cursor.execute("SELECT origin_group_id ...") / ("SELECT COUNT(*) ...")
bu_select ==
    /\ task.pc = "select"
    /\ task' = [task EXCEPT !.pc = "global"]
    /\ UNCHANGED <<storeVars, now, reply, ret, nops, revision, handled_flags,
                   pending_bindings, outbox>>

\* the write of the global row
bu_global ==
    /\ task.pc = "global"
    /\ global_bindings' = BindGlobal(backend, global_bindings, task.qq_id, task.vrc,
                                     "manual", task.group_id)
    /\ task' = [task EXCEPT !.pc = "ensure",
                            !.committed = AfterStatement(global_bindings', group_bindings)]
    /\ UNCHANGED <<backend, group_bindings, global_verifications, verifications, now,
                   reply, ret, nops, revision, handled_flags, pending_bindings, outbox>>

\* self._ensure_group_table(group_id): CREATE TABLE IF NOT EXISTS, and on
\* SQLite self.conn.commit()
bu_ensure ==
    /\ task.pc = "ensure"
    /\ task' = [task EXCEPT !.pc = "group",
                            !.committed = [gb |-> global_bindings, grp |-> group_bindings]]
    /\ UNCHANGED <<storeVars, now, reply, ret, nops, revision, handled_flags,
                   pending_bindings, outbox>>

\* the write of the group row, which may raise: the except clause returns
\* False and rolls nothing back
bu_group(raises) ==
    /\ task.pc = "group"
    /\ IF raises
       THEN /\ UNCHANGED group_bindings
            /\ task' = [task EXCEPT !.pc = "done", !.result = "False"]
       ELSE /\ group_bindings' =
                  UpsertGroupRow(group_bindings, task.qq_id, task.vrc, task.group_id)
            /\ task' = [task EXCEPT !.pc = IF backend = "mysql" THEN "done" ELSE "commit",
                                    !.result = IF backend = "mysql" THEN "True" ELSE @,
                                    !.committed =
                                        AfterStatement(global_bindings, group_bindings')]
    /\ UNCHANGED <<backend, global_bindings, global_verifications, verifications, now,
                   reply, ret, nops, revision, handled_flags, pending_bindings, outbox>>

\* self.conn.commit(); return True
bu_commit ==
    /\ task.pc = "commit"
    /\ task' = [task EXCEPT !.pc = "done", !.result = "True",
                            !.committed = [gb |-> global_bindings, grp |-> group_bindings]]
    /\ UNCHANGED <<storeVars, now, reply, ret, nops, revision, handled_flags,
                   pending_bindings, outbox>>

\* another thread runs add_verification on the connection: its INSERT, and
\* its commit
bu_other_write(q, v, c) ==
    /\ nops < MaxOps
    /\ verifications' = add_verification(verifications, q, v, c, now)
    /\ task' = [task EXCEPT !.committed = [gb |-> global_bindings, grp |-> group_bindings]]
    /\ nops' = nops + 1
    /\ UNCHANGED <<backend, global_bindings, group_bindings, global_verifications, now,
                   reply, ret, revision, handled_flags, pending_bindings, outbox>>

\* another thread runs get_binding on the connection
bu_other_read(q) ==
    /\ nops < MaxOps
    /\ ret' = [op |-> "get_binding", qq_id |-> q,
               ok |-> get_binding(global_bindings, q) # {}, deleted |-> 0]
    /\ nops' = nops + 1
    /\ UNCHANGED <<storeVars, now, reply, revision, task, handled_flags,
                   pending_bindings, outbox>>

\* one bind_user call with a group, on an empty store
InitAtomic ==
    /\ EmptyStore
    /\ revision = "current"
    /\ \E q \in QQs, v \in VrcIds, g \in Groups :
          task = [pc |-> "select", qq_id |-> q, vrc |-> v, group_id |-> g,
                  result |-> "none", committed |-> [gb |-> {}, grp |-> {}]]
    /\ handled_flags = {}
    /\ pending_bindings = {}
    /\ outbox = <<>>
    /\ now = 0
    /\ reply = NoReply
    /\ ret = NoRet
    /\ nops = 0

BindSelect == bu_select
BindWriteGlobal == bu_global
BindEnsure == bu_ensure
BindWriteGroup == \E raises \in BOOLEAN : bu_group(raises)
BindCommit == bu_commit
OtherWrite == \E q \in QQs, v \in VrcIds, c \in Codes : bu_other_write(q, v, c)
OtherRead == \E q \in QQs : bu_other_read(q)

NextAtomic ==
    \/ BindSelect
    \/ BindWriteGlobal
    \/ BindEnsure
    \/ BindWriteGroup
    \/ BindCommit
    \/ OtherWrite
    \/ OtherRead

SpecAtomic == InitAtomic /\ [][NextAtomic]_vars

\* the tables hold the global row of the bind without its group row, or the
\* group row without the global row
Torn(gb, grp) ==
    (get_binding(gb, task.qq_id) = {})
        # (get_group_member_binding(grp, task.group_id, task.qq_id) = {})

\* C40: a Bind with a group is atomic for the operations that run at the
\* same time on the shared connection: at no point do they read, and at no
\* point is there committed, the global row without the group row or the
\* group row without the global row.
C40_BindIsAtomic ==
    /\ ~Torn(global_bindings, group_bindings)
    /\ ~Torn(task.committed.gb, task.committed.grp)

====
